---- MODULE Spec2Model ----
(***************************************************************************)
(* fetch.py, the URL -> content materializer of ZoeHQ/dmz.                 *)
(*                                                                         *)
(* Text is modelled at character level: a Python str is a sequence of      *)
(* one-character strings, so that strip(), lower(), substring tests and    *)
(* the regular expressions of the source are computed and not assumed.     *)
(***************************************************************************)
EXTENDS Integers, Sequences, FiniteSets, TLC

(***************************************************************************)
(* Python str primitives                                                   *)
(***************************************************************************)
UpperChars == <<"A","B","C","D","E","F","G","H","I","J","K","L","M","N","O","P","Q","R","S","T","U","V","W","X","Y","Z">>
LowerChars == <<"a","b","c","d","e","f","g","h","i","j","k","l","m","n","o","p","q","r","s","t","u","v","w","x","y","z">>
DigitChars == {"0","1","2","3","4","5","6","7","8","9"}

\* str.isspace() for the characters that occur in the inputs
IsSpace(c) == c \in {" ", "\t", "\n", "\r"}

LowerChar(c) ==
  IF \E k \in 1..Len(UpperChars) : UpperChars[k] = c
  THEN LowerChars[CHOOSE k \in 1..Len(UpperChars) : UpperChars[k] = c]
  ELSE c

\* str.lower()
Lower(s) == [k \in 1..Len(s) |-> LowerChar(s[k])]

\* s[i-1:j] of Python, 1-based and inclusive here
Slice(s, i, j) == IF i > j THEN << >> ELSE SubSeq(s, i, j)

\* s.startswith(p)
StartsWith(s, p) == Len(p) <= Len(s) /\ SubSeq(s, 1, Len(p)) = p

\* does sub occur in s at (1-based) position i
OccursAt(s, sub, i) ==
  i >= 1 /\ i + Len(sub) - 1 <= Len(s) /\ SubSeq(s, i, i + Len(sub) - 1) = sub

\* sub in s
Contains(s, sub) == \E i \in 1..(Len(s) + 1) : OccursAt(s, sub, i)

\* s.find(sub) + 1: the first position of sub in s, 0 when absent
Find(s, sub) ==
  IF Contains(s, sub)
  THEN CHOOSE i \in 1..(Len(s) + 1) :
         OccursAt(s, sub, i) /\ \A j \in 1..(i - 1) : ~OccursAt(s, sub, j)
  ELSE 0

\* s.strip(): leading and trailing whitespace removed
Strip(s) ==
  IF \A k \in 1..Len(s) : IsSpace(s[k]) THEN << >>
  ELSE LET a == CHOOSE i \in 1..Len(s) :
                  ~IsSpace(s[i]) /\ \A j \in 1..(i - 1) : IsSpace(s[j])
           b == CHOOSE i \in 1..Len(s) :
                  ~IsSpace(s[i]) /\ \A j \in (i + 1)..Len(s) : IsSpace(s[j])
       IN  SubSeq(s, a, b)

\* s.strip("-")
StripHyphens(s) ==
  IF \A k \in 1..Len(s) : s[k] = "-" THEN << >>
  ELSE LET a == CHOOSE i \in 1..Len(s) :
                  s[i] # "-" /\ \A j \in 1..(i - 1) : s[j] = "-"
           b == CHOOSE i \in 1..Len(s) :
                  s[i] # "-" /\ \A j \in (i + 1)..Len(s) : s[j] = "-"
       IN  SubSeq(s, a, b)

\* s.split(sep): the pieces between the occurrences of sep, left to right
RECURSIVE Split(_, _)
Split(s, sep) ==
  LET p == Find(s, sep)
  IN  IF p = 0 THEN << s >>
      ELSE << Slice(s, 1, p - 1) >> \o Split(Slice(s, p + Len(sep), Len(s)), sep)

\* s.split(sep, 1): at most one split
Split1(s, sep) ==
  LET p == Find(s, sep)
  IN  IF p = 0 THEN << s >>
      ELSE << Slice(s, 1, p - 1), Slice(s, p + Len(sep), Len(s)) >>

\* s.replace(old, new), old non-empty: every non-overlapping occurrence
RECURSIVE Replace(_, _, _)
Replace(s, old, new) ==
  LET p == Find(s, old)
  IN  IF p = 0 THEN s
      ELSE Slice(s, 1, p - 1) \o new \o Replace(Slice(s, p + Len(old), Len(s)), old, new)

\* sep.join(parts)
RECURSIVE Join(_, _)
Join(parts, sep) ==
  IF Len(parts) = 0 THEN << >>
  ELSE IF Len(parts) = 1 THEN parts[1]
  ELSE parts[1] \o sep \o Join(Tail(parts), sep)

\* s * n
RECURSIVE Repeat(_, _)
Repeat(s, n) == IF n <= 0 THEN << >> ELSE s \o Repeat(s, n - 1)

\* Python's None
None == "None"

(***************************************************************************)
(* Module constants of fetch.py and the literals of its messages           *)
(***************************************************************************)
\* fetch.py:27-31. The regexes escape every dot, so each is a literal substring.
JS_REQUIRED_PATTERNS ==
  << <<"c","l","a","u","d","e",".","a","i","/","s","h","a","r","e","/">>,
     <<"c","h","a","t","g","p","t",".","c","o","m","/","s","h","a","r","e","/">>,
     <<"c","h","a","t",".","o","p","e","n","a","i",".","c","o","m","/","s","h","a","r","e","/">> >>

\* fetch.py:34-40
LOGIN_PAGE_INDICATORS ==
  << <<"C","o","n","t","i","n","u","e"," ","w","i","t","h"," ","G","o","o","g","l","e">>,
     <<"C","o","n","t","i","n","u","e"," ","w","i","t","h"," ","e","m","a","i","l">>,
     <<"L","o","g"," ","i","n">>,
     <<"S","i","g","n"," ","u","p">>,
     <<"C","r","e","a","t","e"," ","a","n"," ","a","c","c","o","u","n","t">> >>

\* fetch.py:43-50
CLOUDFLARE_INDICATORS ==
  << <<"J","u","s","t"," ","a"," ","m","o","m","e","n","t",".",".",".">>,
     <<"V","e","r","i","f","y"," ","y","o","u"," ","a","r","e"," ","h","u","m","a","n">>,
     <<"c","h","e","c","k","i","n","g"," ","y","o","u","r"," ","b","r","o","w","s","e","r">>,
     <<"E","n","a","b","l","e"," ","J","a","v","a","S","c","r","i","p","t"," ","a","n","d"," ","c","o","o","k","i","e","s">>,
     <<"R","a","y"," ","I","D",":">>,
     <<"c","l","o","u","d","f","l","a","r","e">> >>

\* fetch.py:161
ERR_LOGIN ==
  <<"G","o","t"," ","l","o","g","i","n"," ","p","a","g","e"," ","i","n","s","t","e","a","d"," ","o","f"," ","c","o","n","t","e","n","t"," ","(","J","S"," ","r","e","n","d","e","r","i","n","g"," ","r","e","q","u","i","r","e","d",")">>

\* fetch.py:218
ERR_NO_PLAYWRIGHT ==
  <<"P","l","a","y","w","r","i","g","h","t"," ","n","o","t"," ","i","n","s","t","a","l","l","e","d","."," ","R","u","n",":"," ","p","i","p"," ","i","n","s","t","a","l","l"," ","p","l","a","y","w","r","i","g","h","t"," ","&","&"," ","p","l","a","y","w","r","i","g","h","t"," ","i","n","s","t","a","l","l"," ","c","h","r","o","m","i","u","m">>

\* fetch.py:272
ERR_NO_CONTENT ==
  <<"F","a","i","l","e","d"," ","t","o"," ","e","x","t","r","a","c","t"," ","m","e","a","n","i","n","g","f","u","l"," ","c","o","n","t","e","n","t">>

\* fetch.py:281
ERR_CLOUDFLARE ==
  <<"B","l","o","c","k","e","d"," ","b","y"," ","C","l","o","u","d","f","l","a","r","e"," ","c","h","a","l","l","e","n","g","e"," ","(","b","o","t"," ","d","e","t","e","c","t","i","o","n",")">>

\* fetch.py:185, f"HTTP {e.code}: {e.reason}"
PFX_HTTP ==
  <<"H","T","T","P"," ">>

\* fetch.py:192
PFX_URLERR ==
  <<"U","R","L"," ","E","r","r","o","r",":"," ">>

\* fetch.py:296
PFX_PLAYWRIGHT ==
  <<"P","l","a","y","w","r","i","g","h","t"," ","e","r","r","o","r",":"," ">>

\* fetch.py:439
STR_login_page ==
  <<"l","o","g","i","n"," ","p","a","g","e">>

\* fetch.py:439
STR_JS_rendering ==
  <<"J","S"," ","r","e","n","d","e","r","i","n","g">>

\* fetch.py:247
STR_claude_share ==
  <<"c","l","a","u","d","e",".","a","i","/","s","h","a","r","e">>

\* fetch.py:250
STR_chatgpt_share ==
  <<"c","h","a","t","g","p","t",".","c","o","m","/","s","h","a","r","e">>

\* fetch.py:250
STR_openai_share ==
  <<"c","h","a","t",".","o","p","e","n","a","i",".","c","o","m","/","s","h","a","r","e">>

\* fetch.py:276
STR_Just_a_moment ==
  <<"J","u","s","t"," ","a"," ","m","o","m","e","n","t",".",".",".">>

\* fetch.py:368, 411
STR_turn_sep ==
  <<"\n","\n","-","-","-","\n","\n">>

\* fetch.py:327
STR_Claude_suffix ==
  <<" ","-"," ","C","l","a","u","d","e">>

\* fetch.py:329
STR_Claude ==
  <<"C","l","a","u","d","e">>

\* fetch.py:330
STR_Claude_Conversation ==
  <<"C","l","a","u","d","e"," ","C","o","n","v","e","r","s","a","t","i","o","n">>

\* fetch.py:382
STR_ChatGPT_suffix ==
  <<" ","|"," ","C","h","a","t","G","P","T">>

\* fetch.py:384
STR_ChatGPT_prefix ==
  <<"C","h","a","t","G","P","T"," ","-"," ">>

\* fetch.py:405
STR_Human ==
  <<"*","*","H","u","m","a","n",":","*","*","\n">>

\* fetch.py:407
STR_Assistant ==
  <<"*","*","A","s","s","i","s","t","a","n","t",":","*","*","\n">>

\* The two dash characters of the list pattern that are not ASCII, as single
\* characters of the model's alphabet.
EmDash == "EMDASH"
EnDash == "ENDASH"

\* the first position >= i of s that holds no whitespace, Len(s)+1 when none
SkipSpace(s, i) ==
  IF \E k \in i..Len(s) : ~IsSpace(s[k])
  THEN CHOOSE k \in i..Len(s) : ~IsSpace(s[k]) /\ \A j \in i..(k - 1) : IsSpace(s[j])
  ELSE Len(s) + 1

\* the first position >= i of s that holds whitespace, Len(s)+1 when none
SkipNonSpace(s, i) ==
  IF \E k \in i..Len(s) : IsSpace(s[k])
  THEN CHOOSE k \in i..Len(s) : IsSpace(s[k]) /\ \A j \in i..(k - 1) : ~IsSpace(s[j])
  ELSE Len(s) + 1

\* the first position >= i of s that holds a newline, Len(s)+1 when none
LineEnd(s, i) ==
  IF \E k \in i..Len(s) : s[k] = "\n"
  THEN CHOOSE k \in i..Len(s) : s[k] = "\n" /\ \A j \in i..(k - 1) : s[j] # "\n"
  ELSE Len(s) + 1

\* The regular expression https?://\S+ matched at position p of s: the
\* position after the match (greedy), 0 when it does not match there.
UrlEndAt(s, p) ==
  IF ~OccursAt(s, <<"h","t","t","p">>, p) THEN 0
  ELSE LET q == IF OccursAt(s, <<"s",":","/","/">>, p + 4) THEN p + 8
                ELSE IF OccursAt(s, <<":","/","/">>, p + 4) THEN p + 7
                ELSE 0
       IN  IF q = 0 \/ q > Len(s) \/ IsSpace(s[q]) THEN 0
           ELSE SkipNonSpace(s, q)

(***************************************************************************)
(* needs_js_rendering, is_login_page, is_cloudflare_challenge              *)
(***************************************************************************)
\* mutant of needs_js_rendering: only the first pattern is looked for
needs_js_rendering_FirstPatternOnly(url) ==
  Contains(url, <<"c","l","a","u","d","e",".","a","i","/","s","h","a","r","e","/">>)

needs_js_rendering(url) ==
  \E k \in 1..Len(JS_REQUIRED_PATTERNS) : Contains(url, JS_REQUIRED_PATTERNS[k])

is_login_page(content) ==
  \E k \in 1..Len(LOGIN_PAGE_INDICATORS) : Contains(content, LOGIN_PAGE_INDICATORS[k])

\* Need at least 2 indicators to confirm it's Cloudflare
CloudflareThreshold == 2

\* mutant of is_cloudflare_challenge: one indicator is enough
is_cloudflare_challenge_OneIsEnough(content) ==
  \E k \in 1..Len(CLOUDFLARE_INDICATORS) :
    Contains(Lower(content), Lower(CLOUDFLARE_INDICATORS[k]))

is_cloudflare_challenge(content) ==
  LET content_lower == Lower(content)
      matches == Cardinality({ k \in 1..Len(CLOUDFLARE_INDICATORS) :
                     Contains(content_lower, Lower(CLOUDFLARE_INDICATORS[k])) })
  IN  matches >= CloudflareThreshold

(***************************************************************************)
(* urlparse(url).netloc                                                    *)
(***************************************************************************)
IsLetter(c) ==
  \E k \in 1..Len(UpperChars) : c = UpperChars[k] \/ c = LowerChars[k]

IsSchemeChar(c) == IsLetter(c) \/ c \in DigitChars \/ c \in {"+", "-", "."}

Netloc(url) ==
  LET colon == Find(url, <<":">>)
      hasScheme == /\ colon > 1
                   /\ IsLetter(url[1])
                   /\ \A k \in 1..(colon - 1) : IsSchemeChar(url[k])
      rest == IF hasScheme THEN Slice(url, colon + 1, Len(url)) ELSE url
  IN  IF ~StartsWith(rest, <<"/", "/">>) THEN << >>
      ELSE LET stop == IF \E k \in 3..Len(rest) : rest[k] \in {"/", "?", "#"}
                       THEN CHOOSE k \in 3..Len(rest) :
                              /\ rest[k] \in {"/", "?", "#"}
                              /\ \A j \in 3..(k - 1) : rest[j] \notin {"/", "?", "#"}
                       ELSE Len(rest) + 1
           IN  Slice(rest, 3, stop - 1)

(***************************************************************************)
(* slugify                                                                 *)
(***************************************************************************)
\* \w of Python's re on the model's alphabet
IsWordChar(c) == IsLetter(c) \/ c \in DigitChars \/ c = "_"

\* re.sub(r"[-\s]+", "-", s)
RECURSIVE CollapseRuns(_)
CollapseRuns(s) ==
  IF Len(s) = 0 THEN << >>
  ELSE IF s[1] = "-" \/ IsSpace(s[1])
       THEN LET rest == IF \E k \in 1..Len(s) : ~(s[k] = "-" \/ IsSpace(s[k]))
                        THEN LET n == CHOOSE k \in 1..Len(s) :
                                        /\ ~(s[k] = "-" \/ IsSpace(s[k]))
                                        /\ \A j \in 1..(k - 1) : s[j] = "-" \/ IsSpace(s[j])
                             IN  Slice(s, n, Len(s))
                        ELSE << >>
            IN  <<"-">> \o CollapseRuns(rest)
       ELSE << s[1] >> \o CollapseRuns(Tail(s))

SlugMaxLength == 50

slugify(text, max_length) ==
  LET kept == SelectSeq(Lower(text), LAMBDA c : IsWordChar(c) \/ IsSpace(c) \/ c = "-")
      slug == StripHyphens(CollapseRuns(kept))
  IN  Slice(slug, 1, IF Len(slug) < max_length THEN Len(slug) ELSE max_length)

(***************************************************************************)
(* parse_input_file                                                        *)
(***************************************************************************)
\* Lines that queue files are made of: one for every input shape the parser
\* distinguishes.
LINE_bullet_note ==
  <<"-"," ","h","t","t","p",":","/","/","e",".","c","o","/","a"," ",EmDash," ","f","i","r","s","t">>

LINE_star ==
  <<"*"," ","h","t","t","p","s",":","/","/","e",".","c","o","/","b">>

LINE_bare_url ==
  <<"h","t","t","p",":","/","/","e",".","c","o","/","c">>

LINE_embedded_url ==
  <<"s","e","e"," ","h","t","t","p",":","/","/","e",".","c","o","/","d"," ","n","o","w">>

LINE_words ==
  <<"s","o","m","e"," ","n","o","t","e">>

LINE_empty ==
  <<>>

LINE_bullet_dangling ==
  <<"-"," ","h","t","t","p",":","/","/","e",".","c","o","/","a"," ","-">>

LINE_json_object ==
  <<"{","\"","u","r","l","\"",":"," ","\"","h","t","t","p",":","/","/","e",".","c","o","/","a","\"","}">>

LINE_json_no_url ==
  <<"{","\"","n","o","t","e","\"",":"," ","\"","n","\"","}">>

LINE_json_array ==
  <<"[","{","\"","u","r","l","\"",":"," ","\"","h","t","t","p",":","/","/","e",".","c","o","/","a","\"",","," ","\"","n","o","t","e","\"",":"," ","\"","n","\"","}","]">>

LINE_json_numbers ==
  <<"[","1","]">>

LINE_json_empty ==
  <<"[","]">>

LINE_json_broken ==
  <<"{","b","a","d">>

\* json.loads on the stripped text.  The JSON documents among the texts made
\* of the lines above are exactly these five; every other text that starts
\* with "{" or "[" raises json.JSONDecodeError.
JsonObject(members) == [type |-> "object", members |-> members]
JsonLoads(content) ==
  CASE content = LINE_json_object ->
         JsonObject([url |-> <<"h","t","t","p",":","/","/","e",".","c","o","/","a">>])
    [] content = LINE_json_no_url ->
         JsonObject([note |-> <<"n">>])
    [] content = LINE_json_array ->
         [type |-> "array",
          elems |-> << JsonObject([url |-> <<"h","t","t","p",":","/","/","e",".","c","o","/","a">>,
                                   note |-> <<"n">>]) >>]
    [] content = LINE_json_numbers ->
         [type |-> "array", elems |-> << [type |-> "number"] >>]
    [] content = LINE_json_empty ->
         [type |-> "array", elems |-> << >>]
    [] OTHER -> [type |-> "JSONDecodeError"]

\* what parse_input_file hands back: the list it returns, or the exception
\* that leaves it
Returned(items) == [exc |-> None, items |-> items]
Raised(e) == [exc |-> e, items |-> << >>]

\* {"url": item.get("url", ""), "note": item.get("note", "")}
JsonItem(obj) ==
  [url  |-> IF "url" \in DOMAIN obj.members THEN obj.members["url"] ELSE << >>,
   note |-> IF "note" \in DOMAIN obj.members THEN obj.members["note"] ELSE << >>]

\* fetch.py:68-76.  done = FALSE is the fall through to the other formats.
StructuredForm(content) ==
  IF ~(StartsWith(content, <<"{">>) \/ StartsWith(content, <<"[">>))
  THEN [done |-> FALSE, result |-> Returned(<< >>)]
  ELSE LET data == JsonLoads(content)
       IN  CASE data.type = "object" ->
                  [done |-> TRUE, result |-> Returned(<< JsonItem(data) >>)]
             [] data.type = "array" ->
                  \* item.get on an element that is no dict: AttributeError,
                  \* which the except clause for JSONDecodeError lets pass
                  IF \E k \in 1..Len(data.elems) : data.elems[k].type # "object"
                  THEN [done |-> TRUE, result |-> Raised("AttributeError")]
                  ELSE [done |-> TRUE,
                        result |-> Returned([k \in 1..Len(data.elems) |->
                                               JsonItem(data.elems[k])])]
             [] OTHER -> [done |-> FALSE, result |-> Returned(<< >>)]

\* list_pattern.match(line.strip()) for
\*   ^[-*]\s+(https?://\S+)(?:\s+[\u2014\u2013-]\s+(.*))?$
\* group 2 is None when the optional part is absent.
NoMatch == [matched |-> FALSE, url |-> << >>, note |-> << >>]

\* mutant of ListMatch: the bullet "*" is not accepted
ListMatch_HyphenOnly(line) ==
  LET s == Strip(line)
      u == SkipSpace(s, 2)
  IN  IF Len(s) = 0 \/ s[1] # "-" \/ u = 2 THEN NoMatch
      ELSE LET e == UrlEndAt(s, u)
           IN  IF e = 0 THEN NoMatch
               ELSE IF e = Len(s) + 1
                    THEN [matched |-> TRUE, url |-> Slice(s, u, e - 1), note |-> << >>]
                    ELSE LET d == SkipSpace(s, e)
                             n == SkipSpace(s, d + 1)
                         IN  IF d <= Len(s) /\ s[d] \in {EmDash, EnDash, "-"} /\ n > d + 1
                             THEN [matched |-> TRUE, url |-> Slice(s, u, e - 1),
                                   note |-> Slice(s, n, Len(s))]
                             ELSE NoMatch

\* fetch.py:80-86, one line
ListMatch(line) ==
  LET s == Strip(line)
      u == SkipSpace(s, 2)
  IN  IF Len(s) = 0 \/ s[1] \notin {"-", "*"} \/ u = 2 THEN NoMatch
      ELSE LET e == UrlEndAt(s, u)
           IN  IF e = 0 THEN NoMatch
               ELSE IF e = Len(s) + 1
                    THEN [matched |-> TRUE, url |-> Slice(s, u, e - 1), note |-> << >>]
                    ELSE LET d == SkipSpace(s, e)
                             n == SkipSpace(s, d + 1)
                         IN  IF d <= Len(s) /\ s[d] \in {EmDash, EnDash, "-"} /\ n > d + 1
                             THEN [matched |-> TRUE, url |-> Slice(s, u, e - 1),
                                   note |-> Slice(s, n, Len(s))]
                             ELSE NoMatch

\* fetch.py:79-86
RECURSIVE ListItems(_)
ListItems(lines) ==
  IF Len(lines) = 0 THEN << >>
  ELSE LET m == ListMatch(lines[1])
       IN  (IF m.matched THEN << [url |-> m.url, note |-> m.note] >> ELSE << >>)
           \o ListItems(Tail(lines))

\* fetch.py:91-102: the first line is a URL and nothing else
SingleItemForm(content) ==
  LET parts == Split1(content, <<"\n", "\n">>)
      first_part == Strip(parts[1])
      first_line == Strip(Split(first_part, <<"\n">>)[1])
  IN  IF UrlEndAt(first_line, 1) = Len(first_line) + 1
      THEN << [url |-> first_line,
               note |-> IF Len(parts) > 1 THEN Strip(parts[2]) ELSE << >>] >>
      ELSE << >>

\* fetch.py:104-107: re.search(r"https?://\S+", content)
FallbackForm(content) ==
  IF \E p \in 1..Len(content) : UrlEndAt(content, p) # 0
  THEN LET p == CHOOSE q \in 1..Len(content) :
                  UrlEndAt(content, q) # 0 /\ \A j \in 1..(q - 1) : UrlEndAt(content, j) = 0
       IN  << [url |-> Slice(content, p, UrlEndAt(content, p) - 1), note |-> << >>] >>
  ELSE << >>

\* fetch.py:78-109, the formats after JSON
UnstructuredForms(content) ==
  LET list_items == ListItems(Split(content, <<"\n">>))
  IN  IF Len(list_items) > 0 THEN list_items
      ELSE IF Len(SingleItemForm(content)) > 0 THEN SingleItemForm(content)
      ELSE FallbackForm(content)

parse_input_file(text) ==
  LET content == Strip(text)
  IN  IF Len(content) = 0 THEN Returned(<< >>)
      ELSE IF StructuredForm(content).done THEN StructuredForm(content).result
      ELSE Returned(UnstructuredForms(content))

(***************************************************************************)
(* FetchOutcome: the dict with success, title, content, error that every   *)
(* fetcher returns.  A str-or-None field holds NoneStr for Python's None:  *)
(* a sequence that is no text, since no character is called "<None>".      *)
(***************************************************************************)
NoneStr == << "<None>" >>

Failure(error) ==
  [success |-> FALSE, title |-> << >>, content |-> << >>, error |-> error]

Success(title, content) ==
  [success |-> TRUE, title |-> title, content |-> content, error |-> NoneStr]

(***************************************************************************)
(* fetch_via_jina                                                          *)
(***************************************************************************)
\* mutant of fetch_via_jina: the handler of HTTPError is missing, the body of
\* the error response is taken for the content
fetch_via_jina_NoHttpErrorHandler(url, response) ==
  CASE response.kind \in {"body", "HTTPError"} ->
         Success(<< >>, response.text)
    [] response.kind = "URLError" ->
         Failure(<<"U","R","L"," ","E","r","r","o","r",":"," ">> \o response.text)
    [] OTHER ->
         Failure(response.text)

\* re.search(r"^#\s+(.+)$", content, re.MULTILINE) tried at position p: the
\* first position of group 1, 0 when the pattern does not match at p.  \s+
\* is greedy and gives whitespace back to (.+) only when it ran to the end
\* of the text; "." matches everything but a newline.
HeadingGroupAt(s, p) ==
  IF ~(p = 1 \/ s[p - 1] = "\n") \/ s[p] # "#" THEN 0
  ELSE LET q == SkipSpace(s, p + 1)
       IN  IF q = p + 1 THEN 0
           ELSE IF q <= Len(s) THEN q
           ELSE IF \E g \in (p + 2)..Len(s) : s[g] # "\n"
           THEN CHOOSE g \in (p + 2)..Len(s) :
                  s[g] # "\n" /\ \A j \in (g + 1)..Len(s) : s[j] = "\n"
           ELSE 0

\* fetch.py:164-172
JinaTitle(content, url) ==
  IF \E p \in 1..Len(content) : HeadingGroupAt(content, p) # 0
  THEN LET p == CHOOSE q \in 1..Len(content) :
                  /\ HeadingGroupAt(content, q) # 0
                  /\ \A j \in 1..(q - 1) : HeadingGroupAt(content, j) = 0
           g == HeadingGroupAt(content, p)
       IN  Strip(Slice(content, g, LineEnd(content, g) - 1))
  ELSE Netloc(url)

\* What urlopen(...).read().decode("utf-8") does for one request: it yields
\* the body, or raises.  kind is the class of the exception as the except
\* clauses of fetch_via_jina tell them apart.
JinaBody(body) == [kind |-> "body", code |-> << >>, text |-> body]
JinaHTTPError(code, reason) == [kind |-> "HTTPError", code |-> code, text |-> reason]
JinaURLError(reason) == [kind |-> "URLError", code |-> << >>, text |-> reason]
JinaException(msg) == [kind |-> "Exception", code |-> << >>, text |-> msg]

fetch_via_jina(url, response) ==
  CASE response.kind = "body" ->
         IF is_login_page(response.text)
         THEN Failure(ERR_LOGIN)
         ELSE Success(JinaTitle(response.text, url), response.text)
    [] response.kind = "HTTPError" ->
         Failure(PFX_HTTP \o response.code \o <<":", " ">> \o response.text)
    [] response.kind = "URLError" ->
         Failure(PFX_URLERR \o response.text)
    [] OTHER ->
         Failure(response.text)

\* mutant of JinaWantsFallback: "login page" is looked for in the error text
\* as it is, not in its lower-cased form
JinaWantsFallback_CaseSensitive(result) ==
  \/ Contains(result.error, STR_login_page)
  \/ Contains(result.error, STR_JS_rendering)

\* fetch.py:439, the test that sends fetch_url to the rendered fetch
JinaWantsFallback(result) ==
  \/ Contains(Lower(result.error), STR_login_page)
  \/ Contains(result.error, STR_JS_rendering)

(***************************************************************************)
(* The rendered page, as far as the extractors look at it.  An element     *)
(* that query_selector does not find is NoneStr.                           *)
(*   title       page.title()                                              *)
(*   waitTimeout the wait for a conversation-turn selector timed out       *)
(*   turns       the elements the turn selectors find, in document order,  *)
(*               each with its data-message-author-role and inner_text()   *)
(*   main        inner_text() of the <main> element                        *)
(*   region      inner_text() of the first element matching                *)
(*               "main, article, .content, #content"                       *)
(*   body        inner_text() of <body>                                    *)
(***************************************************************************)
Extracted(content, title) == [exc |-> NoneStr, content |-> content, title |-> title]
ExtractRaised(msg) == [exc |-> msg, content |-> << >>, title |-> << >>]

Heading(title, text) == <<"#", " ">> \o title \o <<"\n", "\n">> \o text

ClaudeMinTurnLength == 10
ClaudeMinMainLength == 100

\* fetch.py:326-330
ClaudeTitle(page) ==
  LET t == IF Contains(page.title, STR_Claude_suffix)
           THEN Strip(Replace(page.title, STR_Claude_suffix, << >>))
           ELSE page.title
  IN  IF t = STR_Claude THEN STR_Claude_Conversation ELSE t

\* mutant of ClaudeMessages: a turn of exactly ten characters is kept
ClaudeMessages_KeepsTen(turns) ==
  SelectSeq([k \in 1..Len(turns) |-> Strip(turns[k].text)],
            LAMBDA t : Len(t) >= ClaudeMinTurnLength)

\* fetch.py:357-360
RECURSIVE ClaudeMessages(_)
ClaudeMessages(turns) ==
  IF Len(turns) = 0 THEN << >>
  ELSE LET text == Strip(turns[1].text)
       IN  (IF Len(text) > ClaudeMinTurnLength THEN << text >> ELSE << >>)
           \o ClaudeMessages(Tail(turns))

\* The timeouts of wait_for_selector are swallowed (fetch.py:319-324).
extract_claude_share(page) ==
  LET title == ClaudeTitle(page)
      messages == ClaudeMessages(page.turns)
  IN  IF Len(page.turns) = 0 /\ page.main # NoneStr /\ Len(page.main) > ClaudeMinMainLength
      THEN Extracted(Heading(title, page.main), title)
      ELSE IF Len(page.turns) = 0 /\ page.body # NoneStr
      THEN Extracted(Heading(title, page.body), title)
      ELSE IF Len(messages) = 0 /\ page.main # NoneStr
      THEN Extracted(Heading(title, page.main), title)
      ELSE Extracted(Heading(title, Join(messages, STR_turn_sep)), title)

\* fetch.py:381-385
ChatGPTTitle(page) ==
  LET t == IF Contains(page.title, STR_ChatGPT_suffix)
           THEN Strip(Replace(page.title, STR_ChatGPT_suffix, << >>))
           ELSE page.title
  IN  IF Contains(t, STR_ChatGPT_prefix)
      THEN Strip(Replace(t, STR_ChatGPT_prefix, << >>))
      ELSE t

\* fetch.py:399-409
RECURSIVE ChatGPTMessages(_)
ChatGPTMessages(turns) ==
  IF Len(turns) = 0 THEN << >>
  ELSE LET text == Strip(turns[1].text)
           msg == CASE turns[1].role = "user" -> STR_Human \o text
                    [] turns[1].role = "assistant" -> STR_Assistant \o text
                    [] OTHER -> text
       IN  (IF Len(text) > 0 THEN << msg >> ELSE << >>)
           \o ChatGPTMessages(Tail(turns))

TimeoutMessage == <<"T","i","m","e","o","u","t">>
\* A timeout of wait_for_selector is not caught here (fetch.py:379).
extract_chatgpt_share(page) ==
  LET title == ChatGPTTitle(page)
  IN  IF page.waitTimeout THEN ExtractRaised(TimeoutMessage)
      ELSE IF Len(page.turns) = 0 /\ page.main # NoneStr
      THEN Extracted(page.main, title)
      ELSE Extracted(Heading(title, Join(ChatGPTMessages(page.turns), STR_turn_sep)), title)

\* fetch.py:254-263; inner_text() of a missing body is an AttributeError
ExtractGeneric(page) ==
  IF page.region # NoneStr THEN Extracted(page.region, page.title)
  ELSE IF page.body # NoneStr THEN Extracted(page.body, page.title)
  ELSE ExtractRaised(<<"N","o","n","e","T","y","p","e">>)

\* fetch.py:247-263: which extraction runs for a URL
Extractor(url) ==
  IF Contains(url, STR_claude_share) THEN "claude"
  ELSE IF Contains(url, STR_chatgpt_share) \/ Contains(url, STR_openai_share) THEN "chatgpt"
  ELSE "generic"

Extract(url, page) ==
  CASE Extractor(url) = "claude" -> extract_claude_share(page)
    [] Extractor(url) = "chatgpt" -> extract_chatgpt_share(page)
    [] OTHER -> ExtractGeneric(page)

MinContentLength == 100

\* mutant of RenderedOutcome: the title goes through the validator
RenderedOutcome_TitleThroughValidator(content, title) ==
  IF Len(content) = 0 \/ Len(Strip(content)) < MinContentLength
  THEN Failure(ERR_NO_CONTENT)
  ELSE IF is_cloudflare_challenge(content) \/ is_cloudflare_challenge(title)
  THEN Failure(ERR_CLOUDFLARE)
  ELSE Success(title, content)

\* fetch.py:267-289, the checks after browser.close()
RenderedOutcome(content, title) ==
  IF Len(content) = 0 \/ Len(Strip(content)) < MinContentLength
  THEN Failure(ERR_NO_CONTENT)
  ELSE IF is_cloudflare_challenge(content) \/ title = STR_Just_a_moment
  THEN Failure(ERR_CLOUDFLARE)
  ELSE Success(title, content)

(***************************************************************************)
(* Inputs: the URLs, the queue files, what the reader proxy answers and    *)
(* what the headless browser shows.                                        *)
(***************************************************************************)
LINE_share ==
  <<"-"," ","h","t","t","p",":","/","/","c","l","a","u","d","e",".","a","i","/","s","h","a","r","e","/","x">>

TEXT_two_bullets ==
  <<"-"," ","h","t","t","p",":","/","/","e",".","c","o","/","a"," ",EmDash," ","f","i","r","s","t","\n","*"," ","h","t","t","p","s",":","/","/","e",".","c","o","/","b">>

BODY_heading ==
  <<"#"," ","T","\n","b","o","d","y">>

\* the login wall that the proxy gets for a page behind a login
BODY_login ==
  <<"C","o","n","t","i","n","u","e"," ","w","i","t","h"," ","G","o","o","g","l","e">>

TITLE_T ==
  <<"T">>

TITLE_claude ==
  <<"T"," ","-"," ","C","l","a","u","d","e">>

TEXT_lorem ==
  <<"l","o","r","e","m"," ">>

TEXT_hi ==
  <<"h","i">>

TEXT_challenge ==
  <<"J","u","s","t"," ","a"," ","m","o","m","e","n","t",".",".","."," ","c","l","o","u","d","f","l","a","r","e"," ">>

\* a queue file that read_text cannot read
Unreadable == << "<unreadable>" >>

QueueTexts ==
  { LINE_bare_url, TEXT_two_bullets, LINE_words,
    LINE_json_no_url, LINE_json_numbers, Unreadable }

JinaResponses ==
  { JinaBody(<< >>), JinaBody(BODY_heading), JinaBody(BODY_login),
    \* HTTP Error 404: Not Found
    JinaHTTPError(<<"4","0","4">>, <<"N","o","t"," ","F","o","u","n","d">>),
    \* HTTP Error 401, with a reason that names a login page
    JinaHTTPError(<<"4","0","1">>, <<"L","o","g","i","n"," ","P","a","g","e">>),
    \* URLError(socket.timeout("timed out"))
    JinaURLError(<<"t","i","m","e","d"," ","o","u","t">>),
    \* UnicodeDecodeError of decode("utf-8"), and an exception without message
    JinaException(<<"i","n","v","a","l","i","d"," ","s","t","a","r","t"," ","b","y","t","e">>),
    JinaException(<< >>) }

LongText == Repeat(TEXT_lorem, 20)

Turn(role, text) == [role |-> role, text |-> text]

Pages ==
  { \* a conversation of one long and one short turn
    [title |-> TITLE_claude, waitTimeout |-> FALSE,
     turns |-> << Turn("user", LongText), Turn("assistant", TEXT_hi) >>,
     main |-> LongText, region |-> LongText, body |-> LongText],
    \* no turn appears, the text is in <main>
    [title |-> TITLE_claude, waitTimeout |-> TRUE, turns |-> << >>,
     main |-> LongText, region |-> LongText, body |-> LongText],
    \* next to nothing on the page
    [title |-> TITLE_T, waitTimeout |-> TRUE, turns |-> << >>,
     main |-> TEXT_hi, region |-> TEXT_hi, body |-> TEXT_hi],
    \* a Cloudflare challenge
    [title |-> STR_Just_a_moment, waitTimeout |-> TRUE, turns |-> << >>,
     main |-> NoneStr, region |-> NoneStr, body |-> TEXT_challenge \o LongText],
    \* no element at all
    [title |-> TITLE_T, waitTimeout |-> TRUE, turns |-> << >>,
     main |-> NoneStr, region |-> NoneStr, body |-> NoneStr] }

NoPage ==
  [title |-> << >>, waitTimeout |-> FALSE, turns |-> << >>,
   main |-> NoneStr, region |-> NoneStr, body |-> NoneStr]

(***************************************************************************)
(* Bounds                                                                  *)
(***************************************************************************)
MaxTime == 2

\* the clock counts in ticks; strftime("%Y-%m-%dT%H%M%S") keeps whole seconds
TicksPerSecond == 2

\* the names of the files that may lie in QUEUE_DIR
GitKeep == ".gitkeep"
QueueFileNames == << "a.md", "b.md" >>
FileNames == { GitKeep } \cup { QueueFileNames[k] : k \in 1..Len(QueueFileNames) }

\* the queue directories at the start: empty, or the .gitkeep file and the
\* first queue files
QueueDirs ==
  { {} } \cup { { GitKeep } \cup { QueueFileNames[k] : k \in 1..n } :
                 n \in 0..Len(QueueFileNames) }

\* QUEUE_DIR.iterdir(): the files of the directory, in the order of the names
IterDir(dir) ==
  (IF GitKeep \in dir THEN << GitKeep >> ELSE << >>)
  \o SelectSeq(QueueFileNames, LAMBDA f : f \in dir)

(***************************************************************************)
(* write_output                                                            *)
(***************************************************************************)
\* timestamp.strftime("%Y-%m-%dT%H%M%S"): the whole seconds of the timestamp
Strftime(timestamp) == timestamp \div TicksPerSecond

\* f"{ts_str}-{title_slug}.md"
Filename(url, title, timestamp) ==
  [ts_str |-> Strftime(timestamp),
   title_slug |-> IF Len(title) > 0 THEN slugify(title, SlugMaxLength)
                  ELSE slugify(Netloc(url), SlugMaxLength)]

\* the file that write_output writes: its name, the fields of the
\* frontmatter and the content that follows it
OutputFile(url, title, content, note, timestamp) ==
  [filename |-> Filename(url, title, timestamp),
   url |-> url,
   title |-> title,
   fetched_at |-> timestamp,
   source_note |-> IF Len(note) > 0
                   THEN Replace(note, << "\"" >>, << "\\", "\"" >>)
                   ELSE NoneStr,
   content |-> content]

\* output_path.write_text: a file of that name is replaced
WriteText(dir, file) == { f \in dir : f.filename # file.filename } \cup { file }

\* mutant of Timestamp: the index of the item is not added
Timestamp_NoOffset(now_, i_) == now_

\* fetch.py:534-538
Timestamp(now_, i_) == IF i_ > 0 THEN now_ + i_ * TicksPerSecond ELSE now_

(***************************************************************************)
(* State                                                                   *)
(***************************************************************************)
VARIABLES
  mode,           \* "queue" or "single": is there an argument on the command line
  argUrl,         \* sys.argv[1]
  argNote,        \* sys.argv[2]
  queueExists,    \* QUEUE_DIR.exists()
  queueDir,       \* the names of the files in QUEUE_DIR
  outputDir,      \* the files in OUTPUT_DIR
  now,            \* datetime.now(timezone.utc), in ticks
  pc,             \* where process_queue or fetch_single_url stands
  queue_files,    \* process_queue: the files found in the queue
  fidx,           \* process_queue: the position of queue_file in queue_files
  urls,           \* process_queue: the items parsed from queue_file
  i,              \* process_queue: the index of item in urls
  results,        \* process_queue: success, failed, files_processed
  summaryPrinted, \* process_queue: the summary is on the terminal
  exitCode,       \* the exit status of the process, NoExit while it runs
  fpc,            \* where fetch_url and the fetcher it called stand
  furl,           \* fetch_url: url
  jinaResult,     \* fetch_url: what fetch_via_jina returned
  pwResult,       \* what fetch_via_playwright returns
  result,         \* what fetch_url returns
  has_stealth,    \* fetch_via_playwright: has_stealth
  sessions,       \* the sync_playwright() contexts that are entered
  browserOpen,    \* the browser launched in the context runs
  page,           \* fetch_via_playwright: the page after goto
  content,        \* fetch_via_playwright: content
  title,          \* fetch_via_playwright: title
  pwExc,          \* the message of the exception raised inside the with block
  jinaCalls,      \* history: calls of fetch_via_jina within this fetch_url
  pwCalls,        \* history: calls of fetch_via_playwright within this fetch_url
  events,         \* history: what the collaborators did within this fetch_url
  writes,         \* history: the calls of write_output of this run
  fetchLog,       \* history: the outcomes fetch_url returned to the runner
  fileFate,       \* history: what became of each queue file
  failedBy,       \* history: the failures each queue file was counted for
  parsedItems,    \* history: the items each queue file was parsed to
  ptext,          \* the text given to parse_input_file on its own
  pout            \* what parse_input_file made of ptext

vars ==
  << mode, argUrl, argNote, queueExists, queueDir, outputDir, now, pc, queue_files,
     fidx, urls, i, results, summaryPrinted, exitCode, fpc, furl, jinaResult,
     pwResult, result, has_stealth, sessions, browserOpen, page, content, title,
     pwExc, jinaCalls, pwCalls, events, writes, fetchLog, fileFate, failedBy,
     parsedItems, ptext, pout >>

runnerVars == << queue_files, fidx, urls, i, results, summaryPrinted, exitCode >>
fetchVars ==
  << furl, jinaResult, pwResult, result, has_stealth, sessions, browserOpen, page,
     content, title, pwExc, jinaCalls, pwCalls, events >>
diskVars == << queueDir, outputDir >>
argVars == << mode, argUrl, argNote, queueExists >>
historyVars == << writes, fetchLog, fileFate, failedBy, parsedItems >>
parseVars == << ptext, pout >>

NoExit == -1
NoResult == [success |-> FALSE, title |-> NoneStr, content |-> NoneStr, error |-> NoneStr]
NotParsed == [exc |-> "not parsed", items |-> << >>]

\* everything but the command line, the queue and the text to parse
InitRest ==
  /\ outputDir = {}
  /\ now = 0
  /\ queue_files = << >>
  /\ fidx = 0
  /\ urls = << >>
  /\ i = 0
  /\ results = [success |-> 0, failed |-> 0, files_processed |-> << >>]
  /\ summaryPrinted = FALSE
  /\ exitCode = NoExit
  /\ fpc = "idle"
  /\ furl = << >>
  /\ jinaResult = NoResult
  /\ pwResult = NoResult
  /\ result = NoResult
  /\ has_stealth = FALSE
  /\ sessions = 0
  /\ browserOpen = FALSE
  /\ page = NoPage
  /\ content = << >>
  /\ title = << >>
  /\ pwExc = NoneStr
  /\ jinaCalls = 0
  /\ pwCalls = 0
  /\ events = {}
  /\ writes = << >>
  /\ fetchLog = << >>
  /\ fileFate = [f \in FileNames |-> IF f \in queueDir THEN "queued" ELSE "absent"]
  /\ failedBy = [f \in FileNames |-> 0]
  /\ parsedItems = [f \in FileNames |-> << >>]

\* fetch.py:593-601
Init ==
  /\ mode \in {"queue", "single"}
  /\ IF mode = "single"
     THEN \* an article, a Claude share link, a ChatGPT share link, and a
          \* link of claude.ai whose path begins with "share" but not "share/"
          /\ argUrl \in
               { <<"h","t","t","p",":","/","/","e",".","c","o","/","a">>,
                 <<"h","t","t","p",":","/","/","c","l","a","u","d","e",".","a","i","/","s","h","a","r","e","d">>,
                 <<"h","t","t","p",":","/","/","c","l","a","u","d","e",".","a","i",
                   "/","s","h","a","r","e","/","x">>,
                 <<"h","t","t","p",":","/","/","c","h","a","t","g","p","t",".","c","o","m",
                   "/","s","h","a","r","e","/","y">> }
          \* no note, or: say "hi"
          /\ argNote \in { << >>, <<"s","a","y"," ","\"","h","i","\"">> }
          /\ queueExists = TRUE
          /\ queueDir = {}
          /\ pc = "fetch_single_url"
     ELSE /\ argUrl = << >>
          /\ argNote = << >>
          /\ queueExists \in BOOLEAN
          /\ queueDir \in (IF queueExists THEN QueueDirs ELSE { {} })
          /\ pc = "process_queue"
  /\ ptext = << >>
  /\ pout = NotParsed
  /\ InitRest

(***************************************************************************)
(* fetch_url, fetch_via_jina, fetch_via_playwright                         *)
(***************************************************************************)
\* mutant of FirstFetcher: the reader proxy is tried first for every URL
FirstFetcher_AlwaysJina(url) == "fetch_via_jina"

\* fetch.py:428-433
FirstFetcher(url) == IF needs_js_rendering(url) THEN "fetch_via_playwright" ELSE "fetch_via_jina"

\* the except clause of fetch_via_jina that a response ends in
JinaEvents(response) ==
  CASE response.kind = "HTTPError" -> {"http_error"}
    [] response.kind = "URLError" -> {"connection_error"}
    [] response.kind = "Exception" -> {"other_exception"}
    [] OTHER -> {}

\* fetch.py:419-430: fetch_url is entered
FetchUrl ==
  /\ fpc = "fetch_url"
  /\ fpc' = FirstFetcher(furl)
  /\ jinaCalls' = 0
  /\ pwCalls' = 0
  /\ events' = {}
  /\ jinaResult' = NoResult
  /\ pwResult' = NoResult
  /\ result' = NoResult
  /\ UNCHANGED << furl, has_stealth, sessions, browserOpen, page, content, title, pwExc >>
  /\ UNCHANGED << pc, now, argVars, diskVars, runnerVars, historyVars, parseVars >>

\* fetch.py:136-200: the one request to the reader proxy and what becomes of it
FetchViaJina ==
  /\ fpc = "fetch_via_jina"
  /\ \E response \in JinaResponses :
       /\ jinaResult' = fetch_via_jina(furl, response)
       /\ events' = events \cup JinaEvents(response)
  /\ jinaCalls' = jinaCalls + 1
  /\ fpc' = "jina_returned"
  /\ UNCHANGED << furl, pwResult, result, has_stealth, sessions, browserOpen, page,
                  content, title, pwExc, pwCalls >>
  /\ UNCHANGED << pc, now, argVars, diskVars, runnerVars, historyVars, parseVars >>

\* mutant of FetchUrlAfterJina: the proxy's outcome is returned as it is
FetchUrlAfterJina_NeverFallsBack ==
  /\ fpc = "jina_returned"
  /\ result' = jinaResult
  /\ fpc' = "returned"
  /\ UNCHANGED << furl, jinaResult, pwResult, has_stealth, sessions, browserOpen, page,
                  content, title, pwExc, jinaCalls, pwCalls, events >>
  /\ UNCHANGED << pc, now, argVars, diskVars, runnerVars, historyVars, parseVars >>

\* fetch.py:435-443
FetchUrlAfterJina ==
  /\ fpc = "jina_returned"
  /\ IF jinaResult.success
     THEN result' = jinaResult /\ fpc' = "returned"
     ELSE IF JinaWantsFallback(jinaResult)
     THEN result' = result /\ fpc' = "fetch_via_playwright"
     ELSE result' = jinaResult /\ fpc' = "returned"
  /\ UNCHANGED << furl, jinaResult, pwResult, has_stealth, sessions, browserOpen, page,
                  content, title, pwExc, jinaCalls, pwCalls, events >>
  /\ UNCHANGED << pc, now, argVars, diskVars, runnerVars, historyVars, parseVars >>

\* fetch.py:211-227: the imports of playwright and of playwright_stealth
PwImport ==
  /\ fpc = "fetch_via_playwright"
  /\ pwCalls' = pwCalls + 1
  /\ \E installed \in BOOLEAN, stealth \in BOOLEAN :
       IF ~installed
       THEN /\ ~stealth
            /\ pwResult' = Failure(ERR_NO_PLAYWRIGHT)
            /\ events' = events \cup {"no_playwright"}
            /\ fpc' = "pw_returned"
            /\ UNCHANGED has_stealth
       ELSE /\ has_stealth' = stealth
            /\ events' = events \cup (IF stealth THEN {} ELSE {"no_stealth"})
            /\ fpc' = "pw_launch"
            /\ UNCHANGED pwResult
  /\ UNCHANGED << furl, jinaResult, result, sessions, browserOpen, page, content, title,
                  pwExc, jinaCalls >>
  /\ UNCHANGED << pc, now, argVars, diskVars, runnerVars, historyVars, parseVars >>

\* fetch.py:230-243: the with block is entered, then browser, context and
\* page are made and stealth applied; any of these may raise
PwLaunch ==
  /\ fpc = "pw_launch"
  /\ sessions' = sessions + 1
  /\ \E ok \in BOOLEAN :
       IF ok
       THEN /\ browserOpen' = TRUE
            /\ events' = events \cup {"launched"}
            /\ fpc' = "pw_goto"
            /\ UNCHANGED pwExc
       ELSE /\ pwExc' = TimeoutMessage
            /\ events' = events \cup {"launch_exc"}
            /\ fpc' = "pw_exit"
            /\ UNCHANGED browserOpen
  /\ UNCHANGED << furl, jinaResult, pwResult, result, has_stealth, page, content, title,
                  jinaCalls, pwCalls >>
  /\ UNCHANGED << pc, now, argVars, diskVars, runnerVars, historyVars, parseVars >>

\* fetch.py:247-255: page.goto
PwGoto ==
  /\ fpc = "pw_goto"
  /\ \/ \E p \in Pages :
          /\ page' = p
          /\ events' = events \cup {"navigated"}
          /\ fpc' = "pw_extract"
          /\ UNCHANGED pwExc
     \/ /\ pwExc' = TimeoutMessage
        /\ events' = events \cup {"goto_exc"}
        /\ fpc' = "pw_exit"
        /\ UNCHANGED page
  /\ UNCHANGED << furl, jinaResult, pwResult, result, has_stealth, sessions, browserOpen,
                  content, title, jinaCalls, pwCalls >>
  /\ UNCHANGED << pc, now, argVars, diskVars, runnerVars, historyVars, parseVars >>

\* what the extraction met: a selector wait that timed out, an exception
ExtractEvents(url, p) ==
  (IF Extractor(url) # "generic" /\ p.waitTimeout THEN {"wait_timeout"} ELSE {})
  \cup (IF Extract(url, p).exc # NoneStr THEN {"extract_exc"} ELSE {})

\* fetch.py:247-263: the extraction
PwExtract ==
  /\ fpc = "pw_extract"
  /\ events' = events \cup ExtractEvents(furl, page)
  /\ LET x == Extract(furl, page)
     IN  IF x.exc # NoneStr
         THEN /\ pwExc' = x.exc
              /\ fpc' = "pw_exit"
              /\ UNCHANGED << content, title >>
         ELSE /\ content' = x.content
              /\ title' = x.title
              /\ fpc' = "pw_close"
              /\ UNCHANGED pwExc
  /\ UNCHANGED << furl, jinaResult, pwResult, result, has_stealth, sessions, browserOpen,
                  page, jinaCalls, pwCalls >>
  /\ UNCHANGED << pc, now, argVars, diskVars, runnerVars, historyVars, parseVars >>

\* fetch.py:265-289: browser.close() and the return statement that the
\* checks of the content choose
PwClose ==
  /\ fpc = "pw_close"
  /\ browserOpen' = FALSE
  /\ pwResult' = RenderedOutcome(content, title)
  /\ fpc' = "pw_exit"
  /\ UNCHANGED << furl, jinaResult, result, has_stealth, sessions, page, content, title,
                  pwExc, jinaCalls, pwCalls, events >>
  /\ UNCHANGED << pc, now, argVars, diskVars, runnerVars, historyVars, parseVars >>

\* mutant of PwExit: an exception leaves the with block without the session
\* being released
PwExit_LeakOnException ==
  /\ fpc = "pw_exit"
  /\ sessions' = IF pwExc # NoneStr THEN sessions ELSE sessions - 1
  /\ browserOpen' = IF pwExc # NoneStr THEN browserOpen ELSE FALSE
  /\ pwResult' = IF pwExc # NoneStr THEN Failure(PFX_PLAYWRIGHT \o pwExc) ELSE pwResult
  /\ pwExc' = NoneStr
  /\ page' = NoPage
  /\ content' = << >>
  /\ title' = << >>
  /\ fpc' = "pw_returned"
  /\ UNCHANGED << furl, jinaResult, result, has_stealth, jinaCalls, pwCalls, events >>
  /\ UNCHANGED << pc, now, argVars, diskVars, runnerVars, historyVars, parseVars >>

\* fetch.py:230, 291-297: the with block is left, by a return or by an
\* exception; sync_playwright's __exit__ stops the driver and the browser
\* with it, and the except clause turns the exception into a failure
PwExit ==
  /\ fpc = "pw_exit"
  /\ sessions' = sessions - 1
  /\ browserOpen' = FALSE
  /\ pwResult' = IF pwExc # NoneStr THEN Failure(PFX_PLAYWRIGHT \o pwExc) ELSE pwResult
  /\ pwExc' = NoneStr
  /\ page' = NoPage
  /\ content' = << >>
  /\ title' = << >>
  /\ fpc' = "pw_returned"
  /\ UNCHANGED << furl, jinaResult, result, has_stealth, jinaCalls, pwCalls, events >>
  /\ UNCHANGED << pc, now, argVars, diskVars, runnerVars, historyVars, parseVars >>

\* mutant of PwReturn: a rendered fetch that failed is tried a second time
PwReturn_TriesAgain ==
  /\ fpc = "pw_returned"
  /\ IF ~pwResult.success /\ pwCalls < 2
     THEN result' = result /\ fpc' = "fetch_via_playwright"
     ELSE result' = pwResult /\ fpc' = "returned"
  /\ UNCHANGED << furl, jinaResult, pwResult, has_stealth, sessions, browserOpen, page,
                  content, title, pwExc, jinaCalls, pwCalls, events >>
  /\ UNCHANGED << pc, now, argVars, diskVars, runnerVars, historyVars, parseVars >>

\* fetch.py:430, 441: return fetch_via_playwright(url)
PwReturn ==
  /\ fpc = "pw_returned"
  /\ result' = pwResult
  /\ fpc' = "returned"
  /\ UNCHANGED << furl, jinaResult, pwResult, has_stealth, sessions, browserOpen, page,
                  content, title, pwExc, jinaCalls, pwCalls, events >>
  /\ UNCHANGED << pc, now, argVars, diskVars, runnerVars, historyVars, parseVars >>

(***************************************************************************)
(* process_queue and fetch_single_url                                      *)
(***************************************************************************)
\* mutant of CountFailed: a failure is counted twice
CountFailed_Twice(res) == [res EXCEPT !.failed = @ + 2]

\* results["failed"] += 1
CountFailed(res) == [res EXCEPT !.failed = @ + 1]

\* mutant of CountSuccess: a written output file is counted twice
CountSuccess_Twice(res) == [res EXCEPT !.success = @ + 2]

\* results["success"] += 1
CountSuccess(res) == [res EXCEPT !.success = @ + 1]

\* mutant of ExitStatus: the failures are not looked at
ExitStatus_AlwaysZero(res) == 0

\* fetch.py:567-569: sys.exit(1) if there are failures, else the normal end
ExitStatus(res) == IF res.failed > 0 THEN 1 ELSE 0

\* fetch.py:558-560: the except clause of the loop over the queue files.
\* The file stays in the queue and the loop goes on with the next file.
FileRaised(fate) ==
  /\ results' = CountFailed(results)
  /\ fileFate' = [fileFate EXCEPT ![queue_files[fidx]] = fate]
  /\ failedBy' = [failedBy EXCEPT ![queue_files[fidx]] = @ + 1]
  /\ fidx' = fidx + 1
  /\ pc' = "pq_file"
  /\ UNCHANGED parsedItems

\* fetch.py:488-503
ProcessQueue ==
  /\ pc = "process_queue"
  /\ LET found == SelectSeq(IterDir(queueDir), LAMBDA f : f # GitKeep)
     IN  IF ~queueExists \/ Len(found) = 0
         THEN /\ pc' = "done"
              /\ exitCode' = 0
              /\ UNCHANGED << queue_files, fidx >>
         ELSE /\ queue_files' = found
              /\ fidx' = 1
              /\ pc' = "pq_file"
              /\ UNCHANGED exitCode
  /\ results' = [success |-> 0, failed |-> 0, files_processed |-> << >>]
  /\ UNCHANGED << urls, i, summaryPrinted >>
  /\ UNCHANGED << fpc, now, argVars, diskVars, fetchVars, historyVars, parseVars >>

\* fetch.py:505-517: the next queue file is read and parsed
ReadQueueFile ==
  /\ pc = "pq_file"
  /\ fidx <= Len(queue_files)
  /\ \E text \in QueueTexts :
       IF text = Unreadable
       THEN FileRaised("unreadable") /\ UNCHANGED << urls, i >>
       ELSE LET parsed == parse_input_file(text)
            IN  IF parsed.exc # None
                THEN FileRaised("parse raised") /\ UNCHANGED << urls, i >>
                ELSE IF Len(parsed.items) = 0
                THEN /\ results' = CountFailed(results)
                     /\ fileFate' = [fileFate EXCEPT ![queue_files[fidx]] = "no urls"]
                     /\ failedBy' = [failedBy EXCEPT ![queue_files[fidx]] = @ + 1]
                     /\ fidx' = fidx + 1
                     /\ pc' = "pq_file"
                     /\ UNCHANGED << urls, i, parsedItems >>
                ELSE /\ urls' = parsed.items
                     /\ i' = 0
                     /\ pc' = "pq_item"
                     /\ fileFate' = [fileFate EXCEPT ![queue_files[fidx]] = "iterating"]
                     /\ parsedItems' = [parsedItems EXCEPT ![queue_files[fidx]] = parsed.items]
                     /\ UNCHANGED << results, failedBy, fidx >>
  /\ UNCHANGED << queue_files, summaryPrinted, exitCode, writes, fetchLog >>
  /\ UNCHANGED << fpc, now, argVars, diskVars, fetchVars, parseVars >>

\* fetch.py:519-530: the next item; an empty url is skipped, any other is
\* given to fetch_url
NextItem ==
  /\ pc = "pq_item"
  /\ i < Len(urls)
  /\ IF Len(urls[i + 1].url) = 0
     THEN /\ i' = i + 1
          /\ UNCHANGED << pc, fpc, furl >>
     ELSE /\ furl' = urls[i + 1].url
          /\ fpc' = "fetch_url"
          /\ pc' = "pq_fetching"
          /\ UNCHANGED i
  /\ UNCHANGED << queue_files, fidx, urls, results, summaryPrinted, exitCode >>
  /\ UNCHANGED << jinaResult, pwResult, result, has_stealth, sessions, browserOpen, page,
                  content, title, pwExc, jinaCalls, pwCalls, events >>
  /\ UNCHANGED << now, argVars, diskVars, historyVars, parseVars >>

\* fetch_url is left: its locals and those of the fetchers are gone
ForgetFetch ==
  /\ furl' = << >>
  /\ jinaResult' = NoResult
  /\ pwResult' = NoResult
  /\ result' = NoResult
  /\ has_stealth' = FALSE
  /\ jinaCalls' = 0
  /\ pwCalls' = 0
  /\ events' = {}
  /\ UNCHANGED << sessions, browserOpen, page, content, title, pwExc >>

\* the record of one call of write_output
WriteRecord(file, index, url, ttl, timestamp) ==
  [file |-> file, i |-> index, at |-> now, timestamp |-> timestamp,
   filename |-> Filename(url, ttl, timestamp)]

\* fetch.py:532-551: fetch_url has returned.  write_output may raise (the
\* output directory cannot be written); the except clause of the file loop
\* catches that.
ItemFetched ==
  /\ pc = "pq_fetching"
  /\ fpc = "returned"
  /\ fpc' = "idle"
  /\ fetchLog' = Append(fetchLog, [file |-> queue_files[fidx], i |-> i,
                                   success |-> result.success])
  /\ IF result.success
     THEN LET timestamp == Timestamp(now, i)
              note == urls[i + 1].note
          IN  \E written \in BOOLEAN :
                IF written
                THEN /\ outputDir' = WriteText(outputDir,
                                        OutputFile(furl, result.title, result.content,
                                                   note, timestamp))
                     /\ writes' = Append(writes, WriteRecord(queue_files[fidx], i, furl,
                                                             result.title, timestamp))
                     /\ results' = CountSuccess(results)
                     /\ i' = i + 1
                     /\ pc' = "pq_item"
                     /\ UNCHANGED << fidx, fileFate, failedBy, parsedItems >>
                ELSE /\ FileRaised("write raised")
                     /\ UNCHANGED << outputDir, writes, i >>
     ELSE /\ results' = CountFailed(results)
          /\ failedBy' = [failedBy EXCEPT ![queue_files[fidx]] = @ + 1]
          /\ i' = i + 1
          /\ pc' = "pq_item"
          /\ UNCHANGED << outputDir, writes, fidx, fileFate, parsedItems >>
  /\ ForgetFetch
  /\ UNCHANGED << queue_files, urls, summaryPrinted, exitCode, queueDir >>
  /\ UNCHANGED << now, argVars, parseVars >>

\* fetch.py:553-556: all items are done, the queue file is deleted
DeleteQueueFile ==
  /\ pc = "pq_item"
  /\ i >= Len(urls)
  /\ queueDir' = queueDir \ { queue_files[fidx] }
  /\ results' = [results EXCEPT !.files_processed = Append(@, queue_files[fidx])]
  /\ fileFate' = [fileFate EXCEPT ![queue_files[fidx]] = "deleted"]
  /\ fidx' = fidx + 1
  /\ pc' = "pq_file"
  /\ UNCHANGED << failedBy, parsedItems >>
  /\ UNCHANGED << queue_files, urls, i, summaryPrinted, exitCode, outputDir, writes, fetchLog >>
  /\ UNCHANGED << fpc, now, argVars, fetchVars, parseVars >>

\* fetch.py:562-569
Summary ==
  /\ pc = "pq_file"
  /\ fidx > Len(queue_files)
  /\ summaryPrinted' = TRUE
  /\ exitCode' = ExitStatus(results)
  /\ pc' = "done"
  /\ UNCHANGED << queue_files, fidx, urls, i, results >>
  /\ UNCHANGED << fpc, now, argVars, diskVars, fetchVars, historyVars, parseVars >>

\* fetch.py:572-576
FetchSingleUrl ==
  /\ pc = "fetch_single_url"
  /\ furl' = argUrl
  /\ fpc' = "fetch_url"
  /\ pc' = "fs_fetching"
  /\ UNCHANGED << jinaResult, pwResult, result, has_stealth, sessions, browserOpen, page,
                  content, title, pwExc, jinaCalls, pwCalls, events >>
  /\ UNCHANGED << now, argVars, diskVars, runnerVars, historyVars, parseVars >>

\* fetch.py:578-590.  An exception of write_output is caught by nobody: the
\* interpreter ends with status 1.
SingleFetched ==
  /\ pc = "fs_fetching"
  /\ fpc = "returned"
  /\ fpc' = "idle"
  /\ pc' = "done"
  /\ fetchLog' = Append(fetchLog, [file |-> GitKeep, i |-> 0, success |-> result.success])
  /\ IF result.success
     THEN \E written \in BOOLEAN :
            IF written
            THEN /\ outputDir' = WriteText(outputDir,
                                    OutputFile(furl, result.title, result.content,
                                               argNote, now))
                 /\ writes' = Append(writes, WriteRecord(GitKeep, 0, furl, result.title, now))
                 /\ exitCode' = 0
            ELSE /\ exitCode' = 1
                 /\ UNCHANGED << outputDir, writes >>
     ELSE /\ exitCode' = 1
          /\ UNCHANGED << outputDir, writes >>
  /\ ForgetFetch
  /\ UNCHANGED << queue_files, fidx, urls, i, results, summaryPrinted, queueDir,
                  fileFate, failedBy, parsedItems >>
  /\ UNCHANGED << now, argVars, parseVars >>

\* Time passes.  Only the readings of the clock after a fetch (fetch.py:534,
\* 579) observe it, so the time since the last reading passes in the steps
\* before the next one.
Tick ==
  /\ fpc = "returned"
  /\ now < MaxTime
  /\ now' = now + 1
  /\ UNCHANGED << pc, fpc, argVars, diskVars, runnerVars, fetchVars, historyVars, parseVars >>

Next ==
  \/ ProcessQueue
  \/ ReadQueueFile
  \/ NextItem
  \/ ItemFetched
  \/ DeleteQueueFile
  \/ Summary
  \/ FetchSingleUrl
  \/ SingleFetched
  \/ FetchUrl
  \/ FetchViaJina
  \/ FetchUrlAfterJina
  \/ PwImport
  \/ PwLaunch
  \/ PwGoto
  \/ PwExtract
  \/ PwClose
  \/ PwExit
  \/ PwReturn
  \/ Tick

Spec == Init /\ [][Next]_vars

(***************************************************************************)
(* parse_input_file on its own, over every text of up to MaxLines lines    *)
(***************************************************************************)
MaxLines == 2

ParseTexts ==
  LET lines == { LINE_bullet_note, LINE_star, LINE_bare_url, LINE_embedded_url,
                 LINE_words, LINE_empty, LINE_bullet_dangling, LINE_share,
                 LINE_json_object, LINE_json_no_url, LINE_json_array,
                 LINE_json_numbers, LINE_json_empty, LINE_json_broken }
  IN  { Join(ls, << "\n" >>) : ls \in UNION { [1..n -> lines] : n \in 1..MaxLines } }

InitParse ==
  /\ mode = "parse"
  /\ argUrl = << >>
  /\ argNote = << >>
  /\ queueExists = FALSE
  /\ queueDir = {}
  /\ pc = "parse_input_file"
  /\ ptext \in ParseTexts
  /\ pout = NotParsed
  /\ InitRest

ParseInputFile ==
  /\ pc = "parse_input_file"
  /\ pout' = parse_input_file(ptext)
  /\ pc' = "done"
  /\ UNCHANGED << ptext, fpc, now, argVars, diskVars, runnerVars, fetchVars, historyVars >>

NextParse == ParseInputFile

SpecParse == InitParse /\ [][NextParse]_vars

(***************************************************************************)
(* The functions without state on their own: the classifiers of URLs and   *)
(* of page texts, the slug of write_output and the two share extractors,   *)
(* each applied once to a text or to a rendered page.                      *)
(***************************************************************************)
\* the texts: URLs, page texts and titles.  Every function is applied to
\* every one of them.
PureTexts ==
  { \* an article
    <<"h","t","t","p",":","/","/","e",".","c","o","/","c">>,
    \* the three share links
    <<"h","t","t","p","s",":","/","/","c","l","a","u","d","e",".","a","i","/","s","h","a",
      "r","e","/","x">>,
    <<"h","t","t","p","s",":","/","/","c","h","a","t","g","p","t",".","c","o","m","/","s",
      "h","a","r","e","/","x">>,
    <<"h","t","t","p","s",":","/","/","c","h","a","t",".","o","p","e","n","a","i",".","c",
      "o","m","/","s","h","a","r","e","/","x">>,
    \* a share path without the slash after it
    <<"h","t","t","p","s",":","/","/","c","l","a","u","d","e",".","a","i","/","s","h","a",
      "r","e">>,
    \* another character where the pattern has its escaped dot
    <<"h","t","t","p","s",":","/","/","c","l","a","u","d","e","x","a","i","/","s","h","a",
      "r","e","/","x">>,
    \* the host in capitals
    <<"h","t","t","p","s",":","/","/","C","L","A","U","D","E",".","A","I","/","s","h","a",
      "r","e","/","x">>,
    \* login phrases: once, in another case, inside a sentence
    <<"S","i","g","n"," ","u","p">>,
    <<"s","i","g","n"," ","u","p">>,
    <<"P","l","e","a","s","e"," ","L","o","g"," ","i","n"," ","n","o","w">>,
    \* one Cloudflare indicator, once and repeated
    <<"c","l","o","u","d","f","l","a","r","e">>,
    <<"C","l","o","u","d","f","l","a","r","e"," ","c","l","o","u","d","f","l","a","r","e",
      " ","C","L","O","U","D","F","L","A","R","E">>,
    \* two indicators, in another case than the list has them
    <<"R","A","Y"," ","I","D",":"," ","1"," ","C","h","e","c","k","i","n","g"," ","Y","o",
      "u","r"," ","B","r","o","w","s","e","r">>,
    <<"J","u","s","t"," ","a"," ","m","o","m","e","n","t",".",".","."," ","V","e","r","i",
      "f","y"," ","y","o","u"," ","a","r","e"," ","h","u","m","a","n">>,
    \* titles
    <<"H","e","l","l","o",","," ","W","o","r","l","d","!">>,
    <<"a","_","b">>,
    <<" ","-","-"," ","A"," "," ","-"," ","b"," ","-","-"," ">>,
    <<"!","?">>,
    <<>>,
    \* one and two characters more than the slug may have, with blanks where
    \* the slug is cut; and a title of 60 characters without blank
    Repeat(<<"a">>, SlugMaxLength - 1) \o <<" ","b">>,
    Repeat(<<"a">>, SlugMaxLength - 1) \o <<" "," ","b","c">>,
    Repeat(<<"a","b">>, 30) }

\* the rendered share pages: titles with and without the provider's affix,
\* turns of 9, 10 and 11 characters after trimming, a turn of blanks, a
\* short and a long <main>, with and without <body>
ExtractPages ==
  { [title |-> t, waitTimeout |-> w, turns |-> ts, main |-> m, region |-> m, body |-> b] :
      t \in { TITLE_claude, STR_Claude,
               <<"C","h","a","t","G","P","T"," ","-"," ","T"," ","|"," ","C","h","a","t","G","P","T">> },
      w \in BOOLEAN,
      ts \in { << >>,
                << Turn("user", <<" ","1","2","3","4","5","6","7","8","9"," ">>),
                   Turn("assistant", <<"1","2","3","4","5","6","7","8","9","0">>),
                   Turn("", <<"1","2","3","4","5","6","7","8","9","0","1","\n">>) >>,
                << Turn("user", <<" "," ">>), Turn("assistant", TEXT_hi) >>,
                << Turn("user", TEXT_hi \o LongText), Turn("assistant", LongText) >> },
      m \in { NoneStr, TEXT_hi, LongText },
      b \in { NoneStr, <<"b","o","d","y"," ">> \o LongText } }

InitPure ==
  /\ mode = "pure"
  /\ argUrl = << >>
  /\ argNote = << >>
  /\ queueExists = FALSE
  /\ queueDir = {}
  /\ pc = "call"
  /\ ptext \in PureTexts
  /\ pout = NotParsed
  /\ InitRest

\* fetch.py:112-117
NeedsJsRendering ==
  /\ pc = "call"
  /\ pout' = needs_js_rendering(ptext)
  /\ pc' = "needs_js_rendering"
  /\ UNCHANGED << ptext, fpc, now, argVars, diskVars, runnerVars, fetchVars, historyVars >>

\* fetch.py:120-125
IsLoginPage ==
  /\ pc = "call"
  /\ pout' = is_login_page(ptext)
  /\ pc' = "is_login_page"
  /\ UNCHANGED << ptext, fpc, now, argVars, diskVars, runnerVars, fetchVars, historyVars >>

\* fetch.py:128-133
IsCloudflareChallenge ==
  /\ pc = "call"
  /\ pout' = is_cloudflare_challenge(ptext)
  /\ pc' = "is_cloudflare_challenge"
  /\ UNCHANGED << ptext, fpc, now, argVars, diskVars, runnerVars, fetchVars, historyVars >>

\* fetch.py:461-463: the slug in the filename, for the title ptext and a URL
\* whose host is used when the title is empty
WriteOutputSlug ==
  /\ pc = "call"
  /\ \E url \in { <<"h","t","t","p",":","/","/","e",".","c","o","/","c">>,
                   <<"h","t","t","p",":","/","/","A","_","b",".","c","o","/">> } :
       pout' = [url |-> url, title_slug |-> Filename(url, ptext, now).title_slug]
  /\ pc' = "write_output"
  /\ UNCHANGED << ptext, fpc, now, argVars, diskVars, runnerVars, fetchVars, historyVars >>

\* fetch.py:300-373, on the page that the browser shows
ExtractClaudeShare ==
  /\ pc = "call"
  /\ \E p \in ExtractPages :
       /\ page' = p
       /\ pout' = extract_claude_share(p)
  /\ pc' = "extract_claude_share"
  /\ UNCHANGED << furl, jinaResult, pwResult, result, has_stealth, sessions, browserOpen,
                  content, title, pwExc, jinaCalls, pwCalls, events >>
  /\ UNCHANGED << ptext, fpc, now, argVars, diskVars, runnerVars, historyVars >>

\* fetch.py:376-416, on the page that the browser shows
ExtractChatgptShare ==
  /\ pc = "call"
  /\ \E p \in ExtractPages :
       /\ page' = p
       /\ pout' = extract_chatgpt_share(p)
  /\ pc' = "extract_chatgpt_share"
  /\ UNCHANGED << furl, jinaResult, pwResult, result, has_stealth, sessions, browserOpen,
                  content, title, pwExc, jinaCalls, pwCalls, events >>
  /\ UNCHANGED << ptext, fpc, now, argVars, diskVars, runnerVars, historyVars >>

\* fetch.py:247-297, with the browser on the page: the extraction that the
\* URL chooses, the checks of what it gave, and the except clause.  The page
\* is one of Pages, under its own title, under the title ptext or under the
\* title of the challenge.
FetchViaPlaywrightOnPage ==
  /\ pc = "call"
  /\ \E url \in { <<"h","t","t","p",":","/","/","e",".","c","o","/","c">>,
                   <<"h","t","t","p",":","/","/","c","l","a","u","d","e",".","a","i",
                     "/","s","h","a","r","e","/","x">>,
                   <<"h","t","t","p",":","/","/","c","h","a","t","g","p","t",".","c","o","m",
                     "/","s","h","a","r","e","/","y">> } :
       \E shown \in Pages :
         \E ttl \in { shown.title, ptext, STR_Just_a_moment } :
           LET p == [shown EXCEPT !.title = ttl]
               x == Extract(url, p)
           IN  /\ furl' = url
               /\ page' = p
               /\ content' = x.content
               /\ title' = x.title
               /\ pwExc' = x.exc
               /\ pout' = IF x.exc # NoneStr THEN Failure(PFX_PLAYWRIGHT \o x.exc)
                          ELSE RenderedOutcome(x.content, x.title)
  /\ pc' = "fetch_via_playwright"
  /\ UNCHANGED << jinaResult, pwResult, result, has_stealth, sessions, browserOpen,
                  jinaCalls, pwCalls, events >>
  /\ UNCHANGED << ptext, fpc, now, argVars, diskVars, runnerVars, historyVars >>

NextPure ==
  \/ FetchViaPlaywrightOnPage
  \/ NeedsJsRendering
  \/ IsLoginPage
  \/ IsCloudflareChallenge
  \/ WriteOutputSlug
  \/ ExtractClaudeShare
  \/ ExtractChatgptShare

SpecPure == InitPure /\ [][NextPure]_vars

(***************************************************************************)
(* Claims                                                                  *)
(***************************************************************************)
\* fetch_url has returned to its caller
Returned_ == fpc = "returned"

\* the reader proxy was asked once for a URL that is no share link, and failed
ProxyFailed ==
  /\ ~needs_js_rendering(furl)
  /\ jinaCalls = 1
  /\ ~jinaResult.success

C2_ShareUrlGoesToRenderedFetchOnly ==
  needs_js_rendering(furl) =>
    /\ jinaCalls = 0
    /\ fpc \notin {"fetch_via_jina", "jina_returned"}
    /\ Returned_ => (pwCalls = 1 /\ result = pwResult)

\* C2, witness: the rendered fetch of a share link failed and fetch_url
\* returned that failure.
C2_Witness_ShareUrlFailed ==
  /\ Returned_
  /\ needs_js_rendering(furl)
  /\ ~result.success
  /\ pwCalls = 1

\* the queue run is over
RunOver == pc = "done" /\ mode = "queue"

\* a queue file that failed entirely: it could not be read, or its text was
\* parsed to no item
FailedEntirely(f) == fileFate[f] \in {"unreadable", "no urls"}

RECURSIVE SumOver(_, _)
SumOver(count, files) ==
  IF files = {} THEN 0
  ELSE LET f == CHOOSE g \in files : TRUE
       IN  count[f] + SumOver(count, files \ {f})

\* C3, as the spec states it: at the end of a queue run every queue file
\* that failed entirely (unreadable, or parsed to zero items) is gone from
\* the queue directory and has added exactly one to the failure count.
C3_FailedFileIsConsumed ==
  RunOver =>
    \A f \in FileNames :
      FailedEntirely(f) => (f \notin queueDir /\ failedBy[f] = 1)

\* C3, what process_queue does: at the end of a queue run every queue file
\* that failed entirely (unreadable, or parsed to zero items) is still in the
\* queue directory and has added exactly one to the failure count, which is
\* the sum of what the files added.
C3_FailedFileStaysAndCountsOnce ==
  RunOver =>
    /\ \A f \in FileNames :
         FailedEntirely(f) =>
           (f \in queueDir /\ failedBy[f] = 1 /\ f \notin
              { results.files_processed[k] : k \in 1..Len(results.files_processed) })
    /\ results.failed = SumOver(failedBy, FileNames)

\* C3, witness: a run over an unreadable file and a file without URL is over.
C3_Witness_UnreadableAndEmpty ==
  /\ RunOver
  /\ \E f, g \in FileNames : fileFate[f] = "unreadable" /\ fileFate[g] = "no urls"

\* the items of queue file f that have a url (positions in the parsed list)
ItemsWithUrl(f) ==
  { k \in 1..Len(parsedItems[f]) : Len(parsedItems[f][k].url) > 0 }

\* the outcomes that fetch_url returned for item k of queue file f
OutcomesOf(f, k) ==
  { n \in 1..Len(fetchLog) : fetchLog[n].file = f /\ fetchLog[n].i = k - 1 }

\* the calls of write_output for item k of queue file f
WritesOf(f, k) ==
  { n \in 1..Len(writes) : writes[n].file = f /\ writes[n].i = k - 1 }

\* no two calls of write_output of this run had the same filename
FilenamesDistinct ==
  \A m, n \in 1..Len(writes) : m # n => writes[m].filename # writes[n].filename

\* write_output raised in this run (the output directory cannot be written)
SomeWriteRaised == \E f \in FileNames : fileFate[f] = "write raised"

\* C4, as the spec states it: in a queue run, over any number of queue files
\* and any time between the fetches, the filenames of the output files of
\* the run differ from each other and no output file is overwritten; and,
\* the output directory being writable, every item with a url gets exactly
\* one FetchOutcome and every successful one exactly one output file.
C4_OneOutcomeAndUniqueFilenamePerItem ==
  /\ FilenamesDistinct
  /\ Cardinality(outputDir) = Len(writes)
  /\ (RunOver /\ ~SomeWriteRaised) =>
       \A f \in FileNames : \A k \in ItemsWithUrl(f) :
         /\ Cardinality(OutcomesOf(f, k)) = 1
         /\ \A n \in OutcomesOf(f, k) :
              fetchLog[n].success => Cardinality(WritesOf(f, k)) = 1

\* the contract of a FetchOutcome
WellFormedOutcome(o) ==
  \/ o.success /\ Len(o.content) > 0 /\ o.error = NoneStr
  \/ ~o.success /\ o.error # NoneStr /\ Len(o.error) > 0 /\ Len(o.content) = 0

\* C5, as the spec states it: every outcome that fetch_via_jina,
\* fetch_via_playwright and fetch_url return is either a success with
\* content and no error, or a failure with a non-empty error and no content.
C5_EveryOutcomeWellFormed ==
  /\ fpc = "jina_returned" => WellFormedOutcome(jinaResult)
  /\ fpc = "pw_returned" => WellFormedOutcome(pwResult)
  /\ fpc = "returned" => WellFormedOutcome(result)

\* where fetch_via_playwright stands between the entry of the with block and
\* its end
InsideWithBlock == fpc \in {"pw_goto", "pw_extract", "pw_close", "pw_exit"}

\* C6: on every path through fetch_via_playwright the browser session is
\* released before the function returns: at most one session is open at any
\* time, and one is open only inside the with block, so none is open when
\* control is back in fetch_url, in the runner, or at the start of the next
\* URL.
C6_SessionReleasedBeforeReturn ==
  /\ sessions \in {0, 1}
  /\ (sessions = 1 \/ browserOpen) => InsideWithBlock
  /\ browserOpen => sessions = 1

\* C6, witness: navigation raised in an open session, and
\* fetch_via_playwright has returned with the session released.
C6_Witness_ReleasedAfterException ==
  /\ fpc = "pw_returned"
  /\ "launched" \in events
  /\ "goto_exc" \in events
  /\ sessions = 0
  /\ ~browserOpen

\* what the claim lists as the error cases of the collaborators
ListedErrors ==
  { "http_error", "connection_error", "other_exception", "no_playwright", "no_stealth",
    "launch_exc", "goto_exc", "wait_timeout", "extract_exc" }

\* C7, as the spec states it: fetch_url propagates no exception and returns a
\* FetchOutcome; in each of the listed error cases (HTTP error status,
\* connection error, timeout, undecodable body, missing headless browser,
\* missing stealth hook, exception during launch, navigation, selector wait
\* or extraction) the outcome has success false; a missing headless browser
\* makes fetch_via_playwright fail without launching or navigating.
C7_EveryListedErrorFails ==
  Returned_ =>
    /\ pwExc = NoneStr
    /\ (events \cap ListedErrors # {}) => ~result.success
    /\ ("no_playwright" \in events) =>
         (events \cap {"launched", "launch_exc", "navigated", "goto_exc"} = {})

\* the errors of the reader proxy and of the rendered fetch that end the
\* fetcher they occur in
ProxyErrors == { "http_error", "connection_error", "other_exception" }
RenderErrors == { "no_playwright", "launch_exc", "goto_exc", "extract_exc" }

\* C7, amended: fetch_url propagates no exception and returns a
\* FetchOutcome.  The outcome has success false when the reader proxy met an
\* HTTP error status, a connection error, a timeout or an undecodable body
\* and no rendered fetch followed, and when the rendered fetch met a missing
\* headless browser or an exception during launch, navigation or extraction
\* (the selector wait of the ChatGPT extractor included).  A missing stealth
\* hook, and a selector wait of the Claude extractor that times out, are no
\* failures by themselves.  A missing headless browser makes
\* fetch_via_playwright fail without launching or navigating.
C7_FatalErrorsFail ==
  Returned_ =>
    /\ pwExc = NoneStr
    /\ result # NoResult
    /\ (pwCalls = 0 /\ events \cap ProxyErrors # {}) => ~result.success
    /\ (events \cap RenderErrors # {}) => ~result.success
    /\ ("no_playwright" \in events) =>
         (events \cap {"launched", "launch_exc", "navigated", "goto_exc"} = {})

\* C7, witness: the headless browser is missing and fetch_url has returned
\* the failure.
C7_Witness_NoPlaywright ==
  /\ Returned_
  /\ "no_playwright" \in events
  /\ ~result.success
  /\ result.error = ERR_NO_PLAYWRIGHT

\* parse_input_file has been applied to ptext
Parsed == mode = "parse" /\ pc = "done"

\* the text starts like JSON but gives no structured items: json.loads
\* rejects it, or it is an array with an element that is no object
StartsStructured(stripped) ==
  StartsWith(stripped, <<"{">>) \/ StartsWith(stripped, <<"[">>)

NoStructuredItems(stripped) ==
  /\ StartsStructured(stripped)
  /\ LET data == JsonLoads(stripped)
     IN  \/ data.type = "JSONDecodeError"
         \/ /\ data.type = "array"
            /\ \E k \in 1..Len(data.elems) : data.elems[k].type # "object"

\* the structured form applied: the text is a JSON object or a JSON array
StructuredApplies(stripped) ==
  StartsStructured(stripped) /\ JsonLoads(stripped).type \in {"object", "array"}

\* C8, as the spec states it: parse_input_file returns a sequence for every
\* text without raising; a text that starts with '{' or '[' and gives no
\* structured items (invalid JSON, or an array whose elements are no objects)
\* gives what the list, single-item and fallback forms give for it; and when
\* a line matches the bullet pattern and the structured form did not apply,
\* the result is the list form, also when the first line is a bare URL.
C8_ParseNeverRaisesAndFallsThrough ==
  Parsed =>
    LET stripped == Strip(ptext)
        list_items == ListItems(Split(stripped, <<"\n">>))
    IN  /\ pout.exc = None
        /\ NoStructuredItems(stripped) => pout.items = UnstructuredForms(stripped)
        /\ (~StructuredApplies(stripped) /\ Len(list_items) > 0) => pout.items = list_items

\* the write records of two items of one queue file, the later one second
EarlierLater(w1, w2) ==
  /\ w1.file = w2.file
  /\ w1.file # GitKeep
  /\ w1.i < w2.i

\* C9, as the spec states it: the timestamps that write_output gets for two
\* items of one queue file are offsets from one common batch time, item i by
\* exactly i seconds, so they differ by exactly the difference of the
\* indices however long the fetches take, and the two filenames differ.
C9_TimestampsExactlyIndexApart ==
  \A m, n \in 1..Len(writes) :
    EarlierLater(writes[m], writes[n]) =>
      /\ writes[n].timestamp - writes[m].timestamp
           = (writes[n].i - writes[m].i) * TicksPerSecond
      /\ writes[m].filename # writes[n].filename

\* C9, amended: the timestamp that write_output gets for item i is the clock
\* read after the fetch of that item, plus i seconds; the timestamps of two
\* items of one queue file differ by the difference of their indices plus
\* the time that passed between the two readings, so by at least one second,
\* and the two filenames differ.
C9_TimestampIsClockPlusIndex ==
  /\ \A n \in 1..Len(writes) :
       writes[n].timestamp = writes[n].at + writes[n].i * TicksPerSecond
  /\ \A m, n \in 1..Len(writes) :
       EarlierLater(writes[m], writes[n]) =>
         /\ writes[n].timestamp - writes[m].timestamp
              = (writes[n].i - writes[m].i) * TicksPerSecond
                  + (writes[n].at - writes[m].at)
         /\ writes[n].at >= writes[m].at
         /\ writes[m].filename # writes[n].filename

\* C9, witness: two items of one queue file are written, their titles equal,
\* and time passed between the two fetches.
C9_Witness_TimePassedBetweenItems ==
  \E m, n \in 1..Len(writes) :
    /\ EarlierLater(writes[m], writes[n])
    /\ writes[n].at > writes[m].at
    /\ writes[m].filename.title_slug = writes[n].filename.title_slug

\* a fetch of this run ended in a failed FetchOutcome
SomeFetchFailed == \E n \in 1..Len(fetchLog) : ~fetchLog[n].success

\* C10: when a fetch ended in a failed FetchOutcome the process exits with a
\* status that is not zero.  In queue mode it does so after the summary, with
\* every queue file processed: the file of the failed item was iterated on
\* and, unless write_output raised, to its end, each item with a url having
\* its outcome.  In single URL mode no output file is written.
C10_FailedFetchExitsNonZero ==
  /\ (exitCode # NoExit) => pc = "done"
  /\ (pc = "done" /\ SomeFetchFailed) =>
       /\ exitCode # NoExit
       /\ exitCode # 0
       /\ mode = "queue" =>
            /\ summaryPrinted
            /\ fidx > Len(queue_files)
            /\ \A k \in 1..Len(queue_files) :
                 fileFate[queue_files[k]] \notin {"queued", "iterating"}
            /\ \A n \in 1..Len(fetchLog) :
                 ~fetchLog[n].success =>
                   /\ fileFate[fetchLog[n].file] \in {"deleted", "write raised"}
                   /\ fileFate[fetchLog[n].file] = "deleted" =>
                        \A k \in ItemsWithUrl(fetchLog[n].file) :
                          Cardinality(OutcomesOf(fetchLog[n].file, k)) = 1
       /\ mode = "single" => (writes = << >> /\ outputDir = {})

\* C10, witness: the first item of a queue run failed, a later one was
\* fetched and written, and the process has exited with status 1.
C10_Witness_FailureThenSuccess ==
  /\ mode = "queue"
  /\ pc = "done"
  /\ exitCode = 1
  /\ Len(fetchLog) >= 2
  /\ ~fetchLog[1].success
  /\ \E n \in 2..Len(fetchLog) : fetchLog[n].success
  /\ Len(writes) >= 1

\* The bullet pattern read as a description of the line, not as a matching
\* procedure: the items [url, note] that the stripped line s spells, where
\* the url is s[a..b] and the note, if any, is s[n..Len(s)].
BulletParts(line) ==
  LET s == Strip(line)
      Blank(lo, hi) == lo <= hi /\ \A k \in lo..hi : IsSpace(s[k])
      Url(a, b) ==
        /\ \A k \in a..b : ~IsSpace(s[k])
        /\ \/ Slice(s, a, a + 6) = <<"h","t","t","p",":","/","/">> /\ b >= a + 7
           \/ Slice(s, a, a + 7) = <<"h","t","t","p","s",":","/","/">> /\ b >= a + 8
  IN  IF Len(s) = 0 \/ s[1] \notin {"-", "*"} THEN {}
      ELSE { [url |-> Slice(s, a, Len(s)), note |-> << >>] :
               a \in { x \in 3..Len(s) : Blank(2, x - 1) /\ Url(x, Len(s)) } }
           \cup
           UNION { { [url |-> Slice(s, a, b), note |-> Slice(s, n, Len(s))] :
                       n \in { x \in (b + 4)..Len(s) :
                                 \E d \in (b + 2)..(x - 2) :
                                   /\ Blank(b + 1, d - 1)
                                   /\ s[d] \in {EmDash, EnDash, "-"}
                                   /\ Blank(d + 1, x - 1)
                                   /\ ~IsSpace(s[x]) } } :
                   <<a, b>> \in { y \in (3..Len(s)) \X (3..Len(s)) :
                                    Blank(2, y[1] - 1) /\ Url(y[1], y[2]) } }

\* the lines of the parsed text, and those among them that the bullet
\* pattern describes
ParsedLines == Split(Strip(ptext), <<"\n">>)
BulletLines == { k \in 1..Len(ParsedLines) : BulletParts(ParsedLines[k]) # {} }

\* the text was handled in list form: it is no JSON document and a line of it
\* is a bullet line
ListFormHandled ==
  /\ Parsed
  /\ ~StructuredApplies(Strip(ptext))
  /\ BulletLines # {}

\* C11: for every text handled in list form, the number of items equals the
\* number of lines that match the bullet pattern, the items are in the order
\* of the lines, lines that do not match give no item, and the note of an
\* item is the text after the separator, or empty.
C11_ListFormOneItemPerBulletLine ==
  ListFormHandled =>
    /\ pout.exc = None
    /\ Len(pout.items) = Cardinality(BulletLines)
    /\ \A k \in BulletLines :
         pout.items[Cardinality({ m \in BulletLines : m <= k })]
           \in BulletParts(ParsedLines[k])

\* C11, witness: two bullet lines, the first with a note and the second
\* without, gave two items in that order.
C11_Witness_TwoBullets ==
  /\ ListFormHandled
  /\ Len(pout.items) = 2
  /\ pout.items[1].note = <<"f","i","r","s","t">>
  /\ pout.items[2].note = << >>
  /\ pout.items[1].url # pout.items[2].url

\* phrase occurs in text at position pos, letter for letter; and the same with
\* capitals and small letters taken for one another
SpelledAt(text, phrase, pos) ==
  /\ pos + Len(phrase) - 1 <= Len(text)
  /\ \A j \in 1..Len(phrase) : text[pos + j - 1] = phrase[j]

\* a capital letter with its small letter
LetterPairs == { {UpperChars[k], LowerChars[k]} : k \in 1..Len(UpperChars) }

SameLetter(a, b) == a = b \/ {a, b} \in LetterPairs

SpelledAnyCaseAt(text, phrase, pos) ==
  /\ pos + Len(phrase) - 1 <= Len(text)
  /\ \A j \in 1..Len(phrase) : SameLetter(text[pos + j - 1], phrase[j])

\* the share paths, the login-wall phrases and the challenge indicators, as
\* the spec lists them
SharePaths ==
  { <<"c","l","a","u","d","e",".","a","i","/","s","h","a","r","e","/">>,
    <<"c","h","a","t","g","p","t",".","c","o","m","/","s","h","a","r","e","/">>,
    <<"c","h","a","t",".","o","p","e","n","a","i",".","c","o","m","/","s","h","a","r","e","/">> }

LoginPhrases ==
  { <<"C","o","n","t","i","n","u","e"," ","w","i","t","h"," ","G","o","o","g","l","e">>,
    <<"C","o","n","t","i","n","u","e"," ","w","i","t","h"," ","e","m","a","i","l">>,
    <<"L","o","g"," ","i","n">>,
    <<"S","i","g","n"," ","u","p">>,
    <<"C","r","e","a","t","e"," ","a","n"," ","a","c","c","o","u","n","t">> }

ChallengePhrases ==
  { <<"J","u","s","t"," ","a"," ","m","o","m","e","n","t",".",".",".">>,
    <<"V","e","r","i","f","y"," ","y","o","u"," ","a","r","e"," ","h","u","m","a","n">>,
    <<"c","h","e","c","k","i","n","g"," ","y","o","u","r"," ","b","r","o","w","s","e","r">>,
    <<"E","n","a","b","l","e"," ","J","a","v","a","S","c","r","i","p","t"," ","a","n","d"," ","c","o","o","k","i","e","s">>,
    <<"R","a","y"," ","I","D",":">>,
    <<"c","l","o","u","d","f","l","a","r","e">> }

\* the challenge indicators that occur in the text, in any case
ChallengePhrasesIn(text) ==
  { ph \in ChallengePhrases : \E pos \in 1..Len(text) : SpelledAnyCaseAt(text, ph, pos) }

\* C12: needs_js_rendering(url) is true if and only if url contains one of
\* the three share paths; the result depends on the URL alone, and the call
\* fetches nothing, writes nothing and changes nothing.
C12_NeedsJsIffSharePath ==
  pc = "needs_js_rendering" =>
    /\ pout = (\E sp \in SharePaths : \E pos \in 1..Len(ptext) : SpelledAt(ptext, sp, pos))
    /\ jinaCalls = 0 /\ pwCalls = 0 /\ sessions = 0
    /\ outputDir = {} /\ queueDir = {} /\ writes = << >>

\* C12, witness: the classifier said yes to a chat.openai.com share link.
C12_Witness_OpenAiShare ==
  /\ pc = "needs_js_rendering"
  /\ pout = TRUE
  /\ \E pos \in 1..Len(ptext) :
       SpelledAt(ptext, <<"c","h","a","t",".","o","p","e","n","a","i",".","c","o","m">>, pos)

\* C13: is_login_page fires if and only if the text contains a login-wall
\* phrase, once being enough; is_cloudflare_challenge fires if and only if
\* at least two different challenge indicators occur in the text, in any
\* case, so not on a text with one indicator however often it is repeated.
C13_LoginOnceCloudflareTwice ==
  /\ pc = "is_login_page" =>
       pout = (\E ph \in LoginPhrases : \E pos \in 1..Len(ptext) : SpelledAt(ptext, ph, pos))
  /\ pc = "is_cloudflare_challenge" =>
       pout = (Cardinality(ChallengePhrasesIn(ptext)) >= 2)

\* C13, witness: one indicator, repeated in the text, and the validator did
\* not fire.
C13_Witness_OneIndicatorRepeated ==
  /\ pc = "is_cloudflare_challenge"
  /\ pout = FALSE
  /\ Cardinality(ChallengePhrasesIn(ptext)) = 1
  /\ \E ph \in ChallengePhrasesIn(ptext) :
       Cardinality({ pos \in 1..Len(ptext) : SpelledAnyCaseAt(ptext, ph, pos) }) >= 2

\* the proxy was asked for a URL that is no share link and answered with the
\* login wall, a body that contains "Continue with Google"
LoginWallFromProxy ==
  /\ ~needs_js_rendering(furl)
  /\ jinaCalls = 1
  /\ jinaResult = Failure(ERR_LOGIN)

\* the error text names the login-page condition
NamesLoginPage(error) ==
  error # NoneStr /\ \E pos \in 1..Len(error) :
    SpelledAnyCaseAt(error, <<"l","o","g","i","n"," ","p","a","g","e">>, pos)

\* C14, as the spec states it: when the proxy's body for a URL that is no
\* share link contains "Continue with Google", no rendered fetch is made and
\* fetch_url returns a failure whose error names the login-page condition.
C14_LoginWallIsFinalFailure ==
  (Returned_ /\ LoginWallFromProxy) =>
    /\ pwCalls = 0
    /\ ~result.success
    /\ NamesLoginPage(result.error)

\* C14, amended: when the proxy's body for a URL that is no share link
\* contains "Continue with Google", the proxy's outcome is the login-page
\* failure, the rendered fetch is made once, and fetch_url returns what the
\* rendered fetch returned: a success, or a failure that names the condition
\* of the rendered fetch and no longer the login page.
C14_LoginWallFallsBackOnce ==
  /\ (fpc = "jina_returned" /\ LoginWallFromProxy) => NamesLoginPage(jinaResult.error)
  /\ (Returned_ /\ LoginWallFromProxy) =>
       /\ pwCalls = 1
       /\ result = pwResult
       /\ result # NoResult
       /\ ~result.success =>
            /\ ~NamesLoginPage(result.error)
            /\ \/ result.error \in {ERR_NO_PLAYWRIGHT, ERR_NO_CONTENT, ERR_CLOUDFLARE}
               \/ StartsWith(result.error, PFX_PLAYWRIGHT)

\* C14, witness: the proxy answered with the login wall, and fetch_url has
\* returned the content that the rendered fetch extracted.
C14_Witness_FallbackSucceeded ==
  /\ Returned_
  /\ LoginWallFromProxy
  /\ pwCalls = 1
  /\ result.success

\* fetch_via_playwright has extracted content and title, closed the browser
\* and chosen its return value
ChecksMade ==
  /\ pc = "fetch_via_playwright"
  /\ pwExc = NoneStr

\* the text holds at least two of the indicators of a challenge page
TwoIndicators(text) == Cardinality(ChallengePhrasesIn(text)) >= 2

FailureIsEmpty(res) == ~res.success => (res.title = << >> /\ res.content = << >>)

\* C15, as the spec states it: fetch_via_playwright returns success only if
\* the trimmed content has at least 100 characters and neither the content
\* nor the title holds two indicators of a Cloudflare challenge; in every
\* other case it returns a failure with empty title and content.
C15_SuccessOnlyIfTitlePassesValidator ==
  ChecksMade =>
    /\ pout.success <=>
         /\ Len(Strip(content)) >= MinContentLength
         /\ ~TwoIndicators(content)
         /\ ~TwoIndicators(title)
    /\ FailureIsEmpty(pout)

\* C15, amended: after the extraction fetch_via_playwright returns success,
\* with the extracted title and content, exactly if the trimmed content has
\* at least 100 characters, the content does not hold two indicators of a
\* Cloudflare challenge, and the title is not exactly "Just a moment...";
\* the title is compared with that one text and not run through the
\* validator.  Every failure it returns has empty title and content.
C15_SuccessIffContentPassesAndTitleDiffers ==
  /\ ChecksMade =>
       /\ pout.success <=>
            /\ Len(Strip(content)) >= MinContentLength
            /\ ~TwoIndicators(content)
            /\ title # STR_Just_a_moment
       /\ pout.success => (pout.title = title /\ pout.content = content)
  /\ pc = "fetch_via_playwright" => FailureIsEmpty(pout)

\* C15, witness: a page whose title holds two indicators and whose content
\* holds none has been returned as a success.
C15_Witness_TitleWithTwoIndicatorsSucceeds ==
  /\ ChecksMade
  /\ pout.success
  /\ TwoIndicators(title)
  /\ ~TwoIndicators(content)

\* one of the two extractors has run on a page without a conversation turn
ExtractedWithoutTurns ==
  /\ pc \in {"extract_claude_share", "extract_chatgpt_share"}
  /\ page.turns = << >>

\* C16: on a page where no conversation turn is found, also when the wait
\* for one timed out, extract_claude_share and extract_chatgpt_share do not
\* raise; they return the text of the main region if there is one, otherwise
\* the text of the document body, under the heading "# <normalized title>".
C16_NoTurnsFallsBackToMainThenBody ==
  (ExtractedWithoutTurns /\ (page.main # NoneStr \/ page.body # NoneStr)) =>
    /\ pout.exc = NoneStr
    /\ pout.content =
         Heading(pout.title, IF page.main # NoneStr THEN page.main ELSE page.body)

\* while fetch_url resolves one URL each fetcher is called at most once, and
\* the rendered fetch of a URL that is no share link comes after the one
\* call of the proxy has returned a failure
NoRetryInFetchUrl ==
  /\ jinaCalls <= 1
  /\ pwCalls <= 1
  /\ (pwCalls = 1 /\ ~needs_js_rendering(furl)) =>
       (jinaCalls = 1 /\ jinaResult # NoResult /\ ~jinaResult.success)

\* the queue files of the run, as names
RunFiles == { queue_files[n] : n \in 1..Len(queue_files) }

\* the index (from 0) of the last item of queue file f that was fetched
LastFetched(f) ==
  LET fetched == { fetchLog[n].i : n \in { m \in 1..Len(fetchLog) : fetchLog[m].file = f } }
  IN  CHOOSE k \in fetched : \A j \in fetched : j <= k

TrimmedTexts(turns) == [k \in 1..Len(turns) |-> Strip(turns[k].text)]

\* the trimmed texts of at least n characters
TextsOfAtLeast(turns, n) == SelectSeq(TrimmedTexts(turns), LAMBDA t : Len(t) >= n)

\* a turn of extract_chatgpt_share under the label of its role
Labelled(turn) ==
  (IF turn.role = "user" THEN <<"*","*","H","u","m","a","n",":","*","*","\n">>
   ELSE IF turn.role = "assistant"
   THEN <<"*","*","A","s","s","i","s","t","a","n","t",":","*","*","\n">>
   ELSE << >>) \o Strip(turn.text)

\* extract_chatgpt_share keeps every turn with a non-empty trimmed text
ChatgptKeepsEveryTurn ==
  (pc = "extract_chatgpt_share" /\ ~page.waitTimeout /\ page.turns # << >>) =>
    /\ pout.exc = NoneStr
    /\ pout.content =
         Heading(pout.title,
                 Join([k \in 1..Len(SelectSeq(page.turns, LAMBDA u : Strip(u.text) # << >>))
                         |-> Labelled(SelectSeq(page.turns,
                                                LAMBDA u : Strip(u.text) # << >>)[k])],
                      <<"\n","\n","-","-","-","\n","\n">>))

\* extract_claude_share joins, under the heading, the turns whose trimmed
\* text has at least n characters, if there is any
ClaudeKeepsTurnsOfAtLeast(n) ==
  (pc = "extract_claude_share" /\ TextsOfAtLeast(page.turns, n) # << >>) =>
    pout.content =
      Heading(pout.title,
              Join(TextsOfAtLeast(page.turns, n), <<"\n","\n","-","-","-","\n","\n">>))

\* C18, as the spec states it: extract_claude_share discards a turn whose
\* trimmed text is shorter than 10 characters and keeps every turn of 10 or
\* more characters, in document order, joined by "\n\n---\n\n";
\* extract_chatgpt_share has no threshold and keeps every turn with
\* non-empty text.
C18_ClaudeKeepsTurnsOfTenOrMore ==
  /\ ClaudeKeepsTurnsOfAtLeast(10)
  /\ ChatgptKeepsEveryTurn

\* C18, amended: extract_claude_share discards a turn whose trimmed text has
\* 10 characters or fewer and keeps every turn of more than 10 characters,
\* in document order, joined by "\n\n---\n\n"; when it keeps no turn of a
\* page with turns, the content is the heading over the text of the main
\* region, or over nothing if there is no main region.
\* extract_chatgpt_share has no threshold and keeps every turn with
\* non-empty text, under the label of its role.
C18_ClaudeKeepsTurnsOfMoreThanTen ==
  /\ ClaudeKeepsTurnsOfAtLeast(11)
  /\ (pc = "extract_claude_share" /\ page.turns # << >>
        /\ TextsOfAtLeast(page.turns, 11) = << >>) =>
       pout.content = Heading(pout.title, IF page.main # NoneStr THEN page.main ELSE << >>)
  /\ pc = "extract_claude_share" => pout.exc = NoneStr
  /\ ChatgptKeepsEveryTurn

\* C18, witness: extract_claude_share has run on a page with turns of 9, 10
\* and 11 characters, and the content holds the turn of 11 characters alone.
C18_Witness_TurnOfTenDiscarded ==
  /\ pc = "extract_claude_share"
  /\ \E k \in 1..Len(page.turns) : Len(Strip(page.turns[k].text)) = 10
  /\ \E k \in 1..Len(page.turns) : Len(Strip(page.turns[k].text)) = 9
  /\ \E k \in 1..Len(page.turns) :
       /\ Len(Strip(page.turns[k].text)) = 11
       /\ pout.content = Heading(pout.title, Strip(page.turns[k].text))

\* C19: for every title, the slug that write_output puts in the filename
\* (of the title, or of the host of the URL when the title is empty) has at
\* most 50 characters, consists of lowercase alphanumeric characters and
\* single hyphens only, and neither starts nor ends with a hyphen; the title
\* "Hello, World!" gives hello-world.
C19_SlugIsCleanAndShort ==
  pc = "write_output" =>
    LET slug == pout.title_slug
    IN  /\ Len(slug) <= 50
        /\ \A k \in 1..Len(slug) :
             \/ slug[k] \in DigitChars
             \/ \E n \in 1..Len(LowerChars) : slug[k] = LowerChars[n]
             \/ slug[k] = "-" /\ (k < Len(slug) => slug[k + 1] # "-")
        /\ Len(slug) > 0 => (slug[1] # "-" /\ slug[Len(slug)] # "-")
        /\ ptext = <<"H","e","l","l","o",","," ","W","o","r","l","d","!">> =>
             slug = <<"h","e","l","l","o","-","w","o","r","l","d">>


\* C19, what slugify does: the slug has at most 50 characters, consists of
\* lowercase letters, digits, underscores and single hyphens, does not start
\* with a hyphen, and ends with one only if it was cut at 50 characters.
C19_SlugAsComputed ==
  pc = "write_output" =>
    LET slug == pout.title_slug
    IN  /\ Len(slug) <= SlugMaxLength
        /\ \A k \in 1..Len(slug) :
             \/ slug[k] \in DigitChars \cup {"_"}
             \/ \E n \in 1..Len(LowerChars) : slug[k] = LowerChars[n]
             \/ slug[k] = "-" /\ (k < Len(slug) => slug[k + 1] # "-")
        /\ Len(slug) > 0 => slug[1] # "-"
        /\ (Len(slug) > 0 /\ slug[Len(slug)] = "-") => Len(slug) = SlugMaxLength
        /\ ptext = <<"H","e","l","l","o",","," ","W","o","r","l","d","!">> =>
             slug = <<"h","e","l","l","o","-","w","o","r","l","d">>

\* C19, the two titles that show it: an underscore stays in the slug, and a
\* slug cut at 50 characters ends with a hyphen.
C19_Witness_UnderscoreAndTrailingHyphen ==
  /\ pc = "write_output"
  /\ \/ pout.title_slug = <<"a","_","b">>
     \/ /\ Len(pout.title_slug) = SlugMaxLength
        /\ pout.title_slug[SlugMaxLength] = "-"

\* queue file f is gone from the queue directory and is listed, once, in
\* files_processed
DeletedAndListed(f) ==
  /\ f \notin queueDir
  /\ Cardinality({ n \in 1..Len(results.files_processed) :
                     results.files_processed[n] = f }) = 1

\* queue file f is where it was, is not listed in files_processed, and has
\* added to the failure count
LeftAndCounted(f) ==
  /\ f \in queueDir
  /\ \A n \in 1..Len(results.files_processed) : results.files_processed[n] # f
  /\ failedBy[f] >= 1

\* no exception was raised while queue file f was read, parsed and iterated
NoExceptionIn(f) == fileFate[f] \notin {"unreadable", "parse raised", "write raised"}

\* queue file f was parsed to items, and the loop went through all of them:
\* every item with a url has its outcome, and every successful one its
\* output file
IteratedToEnd(f) ==
  /\ Len(parsedItems[f]) > 0
  /\ \A k \in ItemsWithUrl(f) :
       /\ Cardinality(OutcomesOf(f, k)) = 1
       /\ \A n \in OutcomesOf(f, k) : fetchLog[n].success => Cardinality(WritesOf(f, k)) = 1

\* the failed outcomes of the items of queue file f
FailedOutcomesOf(f) ==
  { n \in 1..Len(fetchLog) : fetchLog[n].file = f /\ ~fetchLog[n].success }

\* the counts of a queue run: a success is a written output file, a failure
\* is a failed fetch or a queue file that gave no item or raised, and an
\* item with an empty url has no outcome and no output file
CountsAddUp ==
  mode = "queue" =>
    /\ results.success = Len(writes)
    /\ results.failed = SumOver(failedBy, RunFiles)
    /\ \A f \in RunFiles :
         failedBy[f] = Cardinality(FailedOutcomesOf(f))
                       + (IF fileFate[f] \in {"unreadable", "parse raised", "no urls",
                                              "write raised"}
                          THEN 1 ELSE 0)
    /\ \A n \in 1..Len(fetchLog) :
         Len(parsedItems[fetchLog[n].file][fetchLog[n].i + 1].url) > 0
    /\ \A n \in 1..Len(writes) :
         Len(parsedItems[writes[n].file][writes[n].i + 1].url) > 0

ExtractionRun == pwCalls = 1 /\ fpc \in {"pw_close", "pw_exit"} /\ "navigated" \in events

\* the extraction that ran was one of the two made for a provider's
\* conversations
ProviderExtraction == Extractor(furl) \in {"claude", "chatgpt"}

C21_NeedsJsImpliesProviderExtraction ==
  ExtractionRun =>
    /\ needs_js_rendering(furl) => (ProviderExtraction /\ jinaCalls = 0)
    /\ ~needs_js_rendering(furl) => jinaCalls = 1
    /\ ProviderExtraction <=>
         \E sp \in SharePaths : \E pos \in 1..Len(furl) :
           SpelledAt(furl, SubSeq(sp, 1, Len(sp) - 1), pos)

\* C21, the case that shows it: the proxy failed for a URL for which
\* needs_js_rendering is false, and the rendered fetch has run
\* extract_claude_share on it.
C21_Witness_FallbackTakesClaudeExtractor ==
  /\ ExtractionRun
  /\ fpc = "pw_close"
  /\ jinaCalls = 1
  /\ ~needs_js_rendering(furl)
  /\ Extractor(furl) = "claude"
  /\ content = extract_claude_share(page).content
  /\ content # ExtractGeneric(page).content

====
